---- MODULE Spec2Model ----
\* Verification model of the microCloud result analysis scripts
\* (src/analysis): result normalisation, metric derivation, batch loading,
\* aggregation and connection reconstruction.
EXTENDS Integers, Sequences, FiniteSets, TLC

VARIABLES
    result,      \* the raw result record handed to an extractor (a dict)
    twin,        \* the same values carried in the other schema shape
    op,          \* which extractor / analysis has run on result ("none" before)
    out,         \* what that extractor returned
    files,       \* batch: the files of the input directory (or the one input file)
    pending,     \* batch: the files the loader's loop has not reached yet
    results,     \* batch: the list the loader has built so far
    warnings,    \* batch: number of "Warning: ..." lines printed
    phase,       \* batch: position of the run
    tool,        \* batch: which script is running
    produced,    \* batch: what the run produced after loading
    written,     \* batch: the output files the run has written
    events,      \* topology: fileTransferEvents of the record
    joins,       \* topology: peerJoinEvents of the record
    timeline,    \* topology: result of analyze_content_propagation_timeline
    density,     \* topology: result of analyze_network_density
    analyses,    \* comparison: all_analyses, peer count -> the analyses of its record
    inserted,    \* comparison: the keys of all_analyses in insertion order
    insights,    \* comparison: the insights list of analyze_why_20_is_special
    report,      \* comparison: what create_comparison_report did
    command,     \* command line: which script's main is running
    results_dir, \* command line: the input directory, whether it exists and its files
    output_dir,  \* command line: the output directory, whether it exists and its files
    step         \* command line: position of main

vars == <<result, twin, op, out, files, pending, results, warnings, phase,
          tool, produced, written, events, joins, timeline, density,
          analyses, inserted, insights, report, command, results_dir, output_dir, step>>

normVars  == <<result, twin, op, out>>
batchVars == <<files, pending, results, warnings, phase, tool, produced, written>>
topoVars  == <<events, joins, timeline, density>>
insightVars == <<analyses, inserted, insights, report>>
commandVars == <<command, results_dir, output_dir, step>>

-----------------------------------------------------------------------------
\* Bounds of the model

MaxReq == 2        \* request counters range over 0..MaxReq
MaxFiles == 3      \* files in one input directory
MaxEvents == 3     \* transfer events in one record
MaxJoins == 3      \* join events in one record

-----------------------------------------------------------------------------
\* Python values.  A number is an exact fraction n/d in lowest terms (d > 0);
\* None is the one value with d = 0.  A division by zero raises: its outcome
\* is ZeroDivisionError, which every later operation hands on.

RECURSIVE GCD(_, _)
GCD(a, b) == IF b = 0 THEN a ELSE GCD(b, a % b)

Abs(x) == IF x < 0 THEN -x ELSE x

ZeroDivisionError == [n |-> 1, d |-> 0]

Norm(n, d) ==
    IF d = 0 THEN ZeroDivisionError
    ELSE LET g == GCD(Abs(n), d)
         IN  [n |-> n \div g, d |-> d \div g]

Num(k) == [n |-> k, d |-> 1]

PyNone == [n |-> 0, d |-> 0]

IsNone(v) == v.d = 0

\* truth value of a number or None: None and 0 are falsy
Truthy(v) == ~IsNone(v) /\ v.n # 0

\* Python `a or b`
PyOr(a, b) == IF Truthy(a) THEN a ELSE b

Add(a, b) == Norm(a.n * b.d + b.n * a.d, a.d * b.d)
Sub(a, b) == Norm(a.n * b.d - b.n * a.d, a.d * b.d)
Mul(a, b) == Norm(a.n * b.n, a.d * b.d)
\* true division a / b
Div(a, b) == IF b.n > 0 THEN Norm(a.n * b.d, a.d * b.n)
                        ELSE Norm(-(a.n * b.d), a.d * (-b.n))
Gt(a, b) == a.n * b.d > b.n * a.d

RECURSIVE Pow10(_)
Pow10(k) == IF k = 0 THEN 1 ELSE 10 * Pow10(k - 1)

\* round(x, digits): to the nearest 10^-digits, ties to the even one
Round(x, digits) ==
    LET s == x.n * Pow10(digits)
        q == s \div x.d
        r == s - q * x.d
        up == \/ 2 * r > x.d
              \/ 2 * r = x.d /\ q % 2 = 1
    IN  Norm(IF up THEN q + 1 ELSE q, Pow10(digits))

Round2(x) == Round(x, 2)

\* int(x): truncation toward zero
PyInt(x) ==
    IF x.n >= 0 THEN Num(x.n \div x.d) ELSE Num(-((-x.n) \div x.d))

-----------------------------------------------------------------------------
\* Python dicts are functions whose domain is the set of keys present.

EmptyDict == [k \in {} |-> 0]

\* d.get(k, default)
Get(d, k, default) == IF k \in DOMAIN d THEN d[k] ELSE default

\* d.get(k)
GetOrNone(d, k) == Get(d, k, PyNone)

-----------------------------------------------------------------------------
\* extract_metrics (analyze_results.py)

\* network_requests as computed in both branches
NetworkRequests(res) ==
    LET network_requests == GetOrNone(res, "networkRequests")
    IN  IF IsNone(network_requests)
        THEN Add(Get(res, "peerRequests", Num(0)), Get(res, "originRequests", Num(0)))
        ELSE network_requests

\* network_cache_hit_ratio before the `or 0` of the return statement
NetworkCacheHitRatio(res, network_requests) ==
    LET network_cache_hit_ratio == GetOrNone(res, "networkCacheHitRatio")
    IN  IF IsNone(network_cache_hit_ratio) /\ Gt(network_requests, Num(0))
        THEN Mul(Div(Get(res, "peerRequests", Num(0)), network_requests), Num(100))
        ELSE network_cache_hit_ratio

\* avg_latency = res.get('networkAvgLatency') or res.get('avgLatency', 0)
AvgLatency(res) ==
    PyOr(GetOrNone(res, "networkAvgLatency"), Get(res, "avgLatency", Num(0)))

\* the dashboard branch (configuration / metadata / results.microcloud)
ExtractDashboard(r) ==
    LET config == Get(r, "configuration", EmptyDict)
        metadata == Get(r, "metadata", EmptyDict)
        res == Get(Get(r, "results", EmptyDict), "microcloud", EmptyDict)
        em == Get(r, "experimentMetadata", EmptyDict)
        network_requests == NetworkRequests(res)
        network_cache_hit_ratio == NetworkCacheHitRatio(res, network_requests)
        avg_latency == AvgLatency(res)
    IN  [scenario |-> Get(metadata, "scenario", Get(em, "scenario", "unknown")),
         variant |-> Get(metadata, "variant", Get(em, "variant", "unknown")),
         numPeers |-> Get(config, "numPeers", Num(0)),
         duration |-> Get(config, "duration", Num(0)),
         joinRate |-> Get(config, "joinRate", Num(0)),
         churnRate |-> Get(config, "churnRate", Num(0)),
         baselineMode |-> Get(config, "baselineMode", FALSE),
         jainFairnessIndex |-> Get(res, "jainFairnessIndex", Num(0)),
         avgLatency |-> avg_latency,
         networkAvgLatency |-> Get(res, "networkAvgLatency", avg_latency),
         cacheHitRatio |-> Get(res, "cacheHitRatio", Num(0)),
         networkCacheHitRatio |-> PyOr(network_cache_hit_ratio, Num(0)),
         bandwidthSaved |-> Get(res, "bandwidthSaved", Num(0)),
         latencyImprovement |-> Get(res, "latencyImprovement", Num(0)),
         totalRequests |-> Get(res, "totalRequests", Num(0)),
         networkRequests |-> network_requests,
         peerRequests |-> Get(res, "peerRequests", Num(0)),
         originRequests |-> Get(res, "originRequests", Num(0)),
         localCacheHits |-> Get(res, "localCacheHits", Num(0)),
         timeSeriesData |-> Get(res, "timeSeriesData", <<>>)]

\* ExtractLegacy reading the dashboard's configuration key
ExtractLegacyFromConfiguration(r) ==
    LET res == Get(r, "results", EmptyDict)
        network_requests == NetworkRequests(res)
        avg_latency == AvgLatency(res)
        config == Get(r, "configuration", EmptyDict)
    IN  [scenario |-> Get(r, "scenario", "unknown"),
         variant |-> Get(r, "variant", "unknown"),
         numPeers |-> Get(config, "numPeers", Num(0)),
         duration |-> Get(config, "duration", Num(0)),
         joinRate |-> Get(config, "joinRate", Num(0)),
         churnRate |-> Get(config, "churnRate", Num(0)),
         baselineMode |-> Get(config, "baselineMode", FALSE),
         jainFairnessIndex |-> Get(res, "jainFairnessIndex", Num(0)),
         avgLatency |-> avg_latency,
         networkAvgLatency |-> Get(res, "networkAvgLatency", avg_latency),
         cacheHitRatio |-> Get(res, "cacheHitRatio", Num(0)),
         networkCacheHitRatio |->
             PyOr(NetworkCacheHitRatio(res, network_requests), Num(0)),
         bandwidthSaved |-> Get(res, "bandwidthSaved", Num(0)),
         latencyImprovement |-> Get(res, "latencyImprovement", Num(0)),
         totalRequests |-> Get(res, "totalRequests", Num(0)),
         networkRequests |-> network_requests,
         peerRequests |-> Get(res, "peerRequests", Num(0)),
         originRequests |-> Get(res, "originRequests", Num(0)),
         localCacheHits |-> Get(res, "localCacheHits", Num(0)),
         timeSeriesData |-> Get(res, "timeSeriesData", <<>>)]

\* the legacy branch (config / top-level results, scenario and variant)
ExtractLegacy(r) ==
    LET config == Get(r, "config", EmptyDict)
        res == Get(r, "results", EmptyDict)
        network_requests == NetworkRequests(res)
        network_cache_hit_ratio == NetworkCacheHitRatio(res, network_requests)
        avg_latency == AvgLatency(res)
    IN  [scenario |-> Get(r, "scenario", "unknown"),
         variant |-> Get(r, "variant", "unknown"),
         numPeers |-> Get(config, "numPeers", Num(0)),
         duration |-> Get(config, "duration", Num(0)),
         joinRate |-> Get(config, "joinRate", Num(0)),
         churnRate |-> Get(config, "churnRate", Num(0)),
         baselineMode |-> Get(config, "baselineMode", FALSE),
         jainFairnessIndex |-> Get(res, "jainFairnessIndex", Num(0)),
         avgLatency |-> avg_latency,
         networkAvgLatency |-> Get(res, "networkAvgLatency", avg_latency),
         cacheHitRatio |-> Get(res, "cacheHitRatio", Num(0)),
         networkCacheHitRatio |-> PyOr(network_cache_hit_ratio, Num(0)),
         bandwidthSaved |-> Get(res, "bandwidthSaved", Num(0)),
         latencyImprovement |-> Get(res, "latencyImprovement", Num(0)),
         totalRequests |-> Get(res, "totalRequests", Num(0)),
         networkRequests |-> network_requests,
         peerRequests |-> Get(res, "peerRequests", Num(0)),
         originRequests |-> Get(res, "originRequests", Num(0)),
         localCacheHits |-> Get(res, "localCacheHits", Num(0)),
         timeSeriesData |-> Get(res, "timeSeriesData", <<>>)]

\* the structural probe that selects the branch
IsDashboard(r) ==
    "results" \in DOMAIN r /\ "microcloud" \in DOMAIN Get(r, "results", EmptyDict)

extract_metrics(r) ==
    IF IsDashboard(r) THEN ExtractDashboard(r) ELSE ExtractLegacy(r)

\* extract_scalability_metrics (scalability_analysis.py)
extract_scalability_metrics(r) ==
    IF IsDashboard(r)
    THEN LET config == Get(r, "configuration", EmptyDict)
             res == Get(Get(r, "results", EmptyDict), "microcloud", EmptyDict)
             network_requests == NetworkRequests(res)
             network_cache_hit_ratio == NetworkCacheHitRatio(res, network_requests)
         IN  [numPeers |-> Get(config, "numPeers", Num(0)),
              networkCacheHitRatio |-> PyOr(network_cache_hit_ratio, Num(0)),
              jainFairnessIndex |-> Get(res, "jainFairnessIndex", Num(0)),
              avgLatency |-> AvgLatency(res),
              peerRequests |-> Get(res, "peerRequests", Num(0)),
              originRequests |-> Get(res, "originRequests", Num(0)),
              totalRequests |-> Get(res, "totalRequests", Num(0))]
    ELSE EmptyDict

\* the per-mode fields of extract_flash_crowd_metrics
FlashCrowdFields(m) ==
    [totalRequests |-> Get(m, "totalRequests", Num(0)),
     peerRequests |-> Get(m, "peerRequests", Num(0)),
     originRequests |-> Get(m, "originRequests", Num(0)),
     localCacheHits |-> Get(m, "localCacheHits", Num(0)),
     networkRequests |-> Get(m, "networkRequests",
                             Add(Get(m, "peerRequests", Num(0)),
                                 Get(m, "originRequests", Num(0)))),
     cacheHitRatio |-> Get(m, "cacheHitRatio", Num(0)),
     networkCacheHitRatio |-> Get(m, "networkCacheHitRatio", Num(0)),
     bandwidthSaved |-> Get(m, "bandwidthSaved", Num(0)),
     avgLatency |-> Get(m, "avgLatency", Num(0)),
     networkAvgLatency |-> Get(m, "networkAvgLatency", Num(0)),
     latencyImprovement |-> Get(m, "latencyImprovement", Num(0)),
     jainFairnessIndex |-> Get(m, "jainFairnessIndex", Num(0))]

\* extract_flash_crowd_metrics (analyze_flash_crowd.py)
extract_flash_crowd_metrics(r) ==
    LET config == Get(r, "configuration", EmptyDict)
        microcloud == Get(Get(r, "results", EmptyDict), "microcloud", EmptyDict)
        baseline == Get(Get(r, "results", EmptyDict), "baseline", EmptyDict)
    IN  [numPeers |-> Get(config, "numPeers", Num(0)),
         joinRate |-> Get(config, "joinRate", Num(0)),
         churnRate |-> Get(config, "churnRate", Num(0)),
         duration |-> Get(config, "duration", Num(0)),
         microcloud |-> FlashCrowdFields(microcloud),
         baseline |-> FlashCrowdFields(baseline)]

\* ReductionPct taking the share of the remaining load, not of the load removed
ReductionPctOfRemaining(baseline_requests, p2p_requests) ==
    IF Gt(baseline_requests, Num(0))
    THEN Mul(Div(p2p_requests, baseline_requests), Num(100))
    ELSE Num(0)

\* reduction_pct = (reduction / baseline_requests * 100) if baseline_requests > 0 else 0
ReductionPct(baseline_requests, p2p_requests) ==
    IF Gt(baseline_requests, Num(0))
    THEN Mul(Div(Sub(baseline_requests, p2p_requests), baseline_requests), Num(100))
    ELSE Num(0)

\* one row of create_origin_load_reduction_table
LoadReductionRow(row) ==
    LET baseline_requests == row.baseline.originRequests
        p2p_requests == row.microcloud.originRequests
        reduction == Sub(baseline_requests, p2p_requests)
        reduction_pct == ReductionPct(baseline_requests, p2p_requests)
    IN  [numPeers |-> PyInt(row.numPeers),
         baselineOriginRequests |-> PyInt(baseline_requests),
         p2pOriginRequests |-> PyInt(p2p_requests),
         loadReduction |-> PyInt(reduction),
         loadReductionPct |-> Round2(reduction_pct),
         bandwidthSaved |-> Round2(row.microcloud.bandwidthSaved)]

\* the comparison columns of one row of create_flash_crowd_summary_table
SummaryRow(row) ==
    [numPeers |-> PyInt(row.numPeers),
     p2pOriginRequests |-> PyInt(row.microcloud.originRequests),
     baselineOriginRequests |-> PyInt(row.baseline.originRequests),
     loadReduction |-> PyInt(Sub(row.baseline.originRequests,
                                 row.microcloud.originRequests)),
     loadReductionPct |-> Round2(ReductionPct(row.baseline.originRequests,
                                              row.microcloud.originRequests))]

\* data['results'][mode] raises KeyError when a key is missing
HasMode(r, mode) == "results" \in DOMAIN r /\ mode \in DOMAIN r["results"]

\* the per-mode counters of analyze_request_patterns
PatternFields(m) ==
    [total_requests |-> Get(m, "totalRequests", Num(0)),
     peer_requests |-> Get(m, "peerRequests", Num(0)),
     origin_requests |-> Get(m, "originRequests", Num(0)),
     local_cache_hits |-> Get(m, "localCacheHits", Num(0)),
     network_requests |-> Get(m, "networkRequests", Num(0)),
     network_cache_hit_ratio |-> Get(m, "networkCacheHitRatio", Num(0))]

P2PEfficiency(mc) ==
    IF Gt(mc.network_requests, Num(0))
    THEN Mul(Div(mc.peer_requests, mc.network_requests), Num(100))
    ELSE Num(0)

\* analyze_request_patterns (analyze_peer_behavior.py)
analyze_request_patterns(r) ==
    IF ~(HasMode(r, "microcloud") /\ HasMode(r, "baseline"))
    THEN [error |-> "KeyError"]
    ELSE LET mc == PatternFields(r["results"]["microcloud"])
             base == PatternFields(r["results"]["baseline"])
         IN  [error |-> "",
              microcloud |-> mc,
              baseline |-> base,
              p2p_efficiency |-> P2PEfficiency(mc),
              origin_load_reduction |-> Sub(base.origin_requests, mc.origin_requests),
              origin_load_reduction_pct |->
                  ReductionPct(base.origin_requests, mc.origin_requests)]

\* df.sort_values('numPeers'): rows in ascending order of numPeers
RECURSIVE SortByNumPeers(_)
SortByNumPeers(rows) ==
    IF Len(rows) <= 1 THEN rows
    ELSE LET rest == SortByNumPeers(Tail(rows))
             x == Head(rows)
             k == Cardinality({i \in 1..Len(rest) : Gt(x.numPeers, rest[i].numPeers)})
         IN  SubSeq(rest, 1, k) \o <<x>> \o SubSeq(rest, k + 1, Len(rest))

\* create_origin_load_reduction_table: the rows written to the CSV
create_origin_load_reduction_table(rs) ==
    LET df == SortByNumPeers([i \in 1..Len(rs) |-> extract_flash_crowd_metrics(rs[i])])
    IN  [i \in 1..Len(df) |-> LoadReductionRow(df[i])]

\* create_flash_crowd_summary_table: the rows written to the CSV
create_flash_crowd_summary_table(rs) ==
    LET df == SortByNumPeers([i \in 1..Len(rs) |-> extract_flash_crowd_metrics(rs[i])])
    IN  [i \in 1..Len(df) |-> SummaryRow(df[i])]

-----------------------------------------------------------------------------
\* Input records.  A record's values are held once and laid out in either
\* schema shape.

Opt(k, Vals) == {EmptyDict} \cup {k :> v : v \in Vals}

Counts == {Num(i) : i \in 0..MaxReq}

\* the counters and ratios the derivation rules read
CoreRes ==
    {a @@ b @@ c @@ d @@ e @@ f :
        a \in Opt("peerRequests", Counts),
        b \in Opt("originRequests", Counts),
        c \in Opt("networkRequests", Counts),
        d \in Opt("networkCacheHitRatio", {Num(0), Num(50)}),
        e \in Opt("networkAvgLatency", {Num(0), Num(7)}),
        f \in Opt("avgLatency", {Num(5)})}

\* the fields copied through unchanged
ExtraRes ==
    {EmptyDict,
     [jainFairnessIndex |-> Norm(1, 2), cacheHitRatio |-> Num(40),
      bandwidthSaved |-> Norm(100, 3), latencyImprovement |-> Num(10),
      totalRequests |-> Num(9), localCacheHits |-> Num(4),
      timeSeriesData |-> <<[time |-> Num(1), avgLatency |-> Num(6)]>>]}

Configs ==
    {EmptyDict,
     [numPeers |-> Num(20)],
     [numPeers |-> Num(100), duration |-> Num(60), joinRate |-> Num(2),
      churnRate |-> Norm(1, 10), baselineMode |-> TRUE]}

\* results.baseline of a flash-crowd record
BaselineRes ==
    {[originRequests |-> Num(i), peerRequests |-> Num(0)] : i \in 0..(MaxReq + 1)}
    \cup {EmptyDict,
          [originRequests |-> Num(1000), peerRequests |-> Num(0),
           networkRequests |-> Num(1000)]}

\* results.microcloud of a flash-crowd record
FlashRes ==
    {("peerRequests" :> p) @@ ("originRequests" :> o) : p \in Counts, o \in Counts}
    \cup {[originRequests |-> Num(200), peerRequests |-> Num(800)]}

\* scenario ("" when the record names none) and where a dashboard record
\* carries it
Labelings ==
    {[scenario |-> "", place |-> "metadata"]}
    \cup {[scenario |-> "high_churn", place |-> p] :
             p \in {"metadata", "experimentMetadata"}}

Values ==
    {[config |-> c, res |-> r @@ x, hasBaseline |-> FALSE, base |-> EmptyDict,
      scenario |-> l.scenario, place |-> l.place] :
        c \in Configs, r \in CoreRes, x \in ExtraRes, l \in Labelings}
    \cup
    {[config |-> c, res |-> r, hasBaseline |-> TRUE, base |-> b,
      scenario |-> "flash_crowd", place |-> "metadata"] :
        c \in Configs, r \in FlashRes, b \in BaselineRes}

Labels(v) ==
    IF v.scenario = "" THEN EmptyDict
    ELSE ("scenario" :> v.scenario) @@ ("variant" :> "v1")

\* the legacy layout of v: config, top-level results, scenario and variant
Legacy(v) ==
    (IF DOMAIN v.config = {} THEN EmptyDict ELSE "config" :> v.config)
    @@ (IF DOMAIN v.res = {} THEN EmptyDict ELSE "results" :> v.res)
    @@ Labels(v)

\* the dashboard layout of v: configuration, metadata, results.microcloud
Dashboard(v) ==
    (IF DOMAIN v.config = {} THEN EmptyDict ELSE "configuration" :> v.config)
    @@ ("results" :> (("microcloud" :> v.res)
                      @@ (IF v.hasBaseline THEN "baseline" :> v.base ELSE EmptyDict)))
    @@ (IF v.scenario = "" THEN EmptyDict ELSE v.place :> Labels(v))

-----------------------------------------------------------------------------
\* Normalisation and derivation: one record, one extractor call.

NoOutput == EmptyDict

IdleNorm == result = EmptyDict /\ twin = EmptyDict /\ op = "idle" /\ out = NoOutput
IdleBatch ==
    /\ files = {} /\ pending = {} /\ results = <<>> /\ warnings = 0
    /\ phase = "idle" /\ tool = "idle" /\ produced = <<>> /\ written = NoOutput
IdleTopo ==
    events = <<>> /\ joins = <<>> /\ timeline = NoOutput /\ density = NoOutput
IdleCommand ==
    /\ command = "none"
    /\ results_dir = [exists |-> FALSE, names |-> {}]
    /\ output_dir = [exists |-> FALSE, names |-> {}]
    /\ step = "idle"

IdleInsight ==
    analyses = NoOutput /\ inserted = <<>> /\ insights = <<>> /\ report = NoOutput

Init ==
    /\ \E v \in Values :
          \/ result = Legacy(v) /\ twin = Dashboard(v)
          \/ result = Dashboard(v) /\ twin = Legacy(v)
    /\ op = "none"
    /\ out = NoOutput
    /\ IdleBatch
    /\ IdleTopo
    /\ IdleInsight
    /\ IdleCommand

Run(name, value) ==
    /\ op = "none"
    /\ op' = name
    /\ out' = value
    /\ UNCHANGED <<result, twin, batchVars, topoVars, insightVars, commandVars>>

ExtractMetrics == Run("extract_metrics", extract_metrics(result))

ExtractScalabilityMetrics ==
    Run("extract_scalability_metrics", extract_scalability_metrics(result))

ExtractFlashCrowdMetrics ==
    Run("extract_flash_crowd_metrics", extract_flash_crowd_metrics(result))

AnalyzeRequestPatterns ==
    Run("analyze_request_patterns", analyze_request_patterns(result))

CreateOriginLoadReductionTable ==
    Run("create_origin_load_reduction_table",
        create_origin_load_reduction_table(<<result, twin>>))

CreateFlashCrowdSummaryTable ==
    Run("create_flash_crowd_summary_table",
        create_flash_crowd_summary_table(<<result, twin>>))

Next ==
    \/ ExtractMetrics
    \/ ExtractScalabilityMetrics
    \/ ExtractFlashCrowdMetrics
    \/ AnalyzeRequestPatterns
    \/ CreateOriginLoadReductionTable
    \/ CreateFlashCrowdSummaryTable

Spec == Init /\ [][Next]_vars

-----------------------------------------------------------------------------
\* Statistics

RECURSIVE SumSeq(_)
SumSeq(xs) == IF xs = <<>> THEN Num(0) ELSE Add(Head(xs), SumSeq(Tail(xs)))

\* a mean that folds each new sample into the running value
RECURSIVE RunningMean(_)
RunningMean(xs) ==
    IF Len(xs) = 1 THEN xs[1]
    ELSE Div(Add(RunningMean(SubSeq(xs, 1, Len(xs) - 1)), xs[Len(xs)]), Num(2))

\* statistics.mean, np.mean, pandas mean
Mean(xs) == Div(SumSeq(xs), Num(Len(xs)))

\* sum of squared deviations from the mean
SumSqDev(xs) ==
    LET m == Mean(xs)
    IN  SumSeq([i \in 1..Len(xs) |-> Mul(Sub(xs[i], m), Sub(xs[i], m))])

\* a square root is held by its radicand
PySqrt(v) == [sqrt_of |-> v]

\* statistics.stdev: sample standard deviation (needs two samples)
Stdev(xs) == PySqrt(Div(SumSqDev(xs), Num(Len(xs) - 1)))

\* np.std with its default ddof=0
NpStd(xs) == PySqrt(Div(SumSqDev(xs), Num(Len(xs))))

-----------------------------------------------------------------------------
\* Batch runs: a directory of files is loaded file by file, in the order the
\* glob yields them, and the loaded list is then normalised and aggregated.

\* an element of a loaded results list: a dict (with the JSON type of its
\* 'results' member) or something that is not a dict
DictEntry(rec, resultsKind) == [isDict |-> TRUE, resultsKind |-> resultsKind, rec |-> rec]
OtherEntry == [isDict |-> FALSE, resultsKind |-> "absent", rec |-> EmptyDict]

\* a flat per-run record as the multi-run tools read it
Flat(peers, hit, lat) ==
    [peersSimulated |-> Num(peers), cacheHitRatio |-> Num(hit), avgLatency |-> Num(lat),
     bandwidthSaved |-> Num(hit), jainFairnessIndex |-> Norm(1, 2)]

\* a parsed file: the JSON type of the document, for an object the JSON type
\* of its 'results' member, the object itself, and the elements of the
\* document (a list) or of its 'results' (a list)
File(name, kind, resultsKind, data, items) ==
    [name |-> name, kind |-> kind, resultsKind |-> resultsKind, data |-> data,
     items |-> items]

DashboardRun(peers, peerReq, originReq, lat) ==
    [configuration |-> [numPeers |-> Num(peers)],
     metadata |-> [scenario |-> "scalability", variant |-> "v1"],
     results |-> [microcloud |-> [peerRequests |-> Num(peerReq),
                                  originRequests |-> Num(originReq),
                                  networkAvgLatency |-> Num(lat),
                                  totalRequests |-> Num(peerReq + originReq)]]]

\* a dashboard record of a run in baseline mode
BaselineRun(peers, originReq, lat) ==
    [DashboardRun(peers, 0, originReq, lat) EXCEPT
        !["configuration"] = [numPeers |-> Num(peers), baselineMode |-> TRUE],
        !["metadata"] = [scenario |-> "high_churn", variant |-> "v1"],
        !["results"] = [microcloud |-> [peerRequests |-> Num(0),
                                        originRequests |-> Num(originReq),
                                        networkAvgLatency |-> Num(lat),
                                        totalRequests |-> Num(originReq),
                                        jainFairnessIndex |-> Norm(1, 4)]]]

\* a dashboard record of a high-churn run
HighChurnRun(peers, peerReq, originReq, lat) ==
    [DashboardRun(peers, peerReq, originReq, lat) EXCEPT
        !["configuration"] = [numPeers |-> Num(peers), churnRate |-> Norm(1, 10)],
        !["metadata"] = [scenario |-> "high_churn", variant |-> "v1"],
        !["results"] = [microcloud |-> [peerRequests |-> Num(peerReq),
                                        originRequests |-> Num(originReq),
                                        networkAvgLatency |-> Num(lat),
                                        totalRequests |-> Num(peerReq + originReq),
                                        jainFairnessIndex |-> Norm(3, 4)]]]

FilePool ==
    {File("run_a.json", "dict", "absent", Flat(20, 10, 5), <<>>),
     File("run_b.json", "dict", "absent", Flat(20, 40, 7), <<>>),
     File("run_c.json", "dict", "absent", [peersSimulated |-> Num(100)], <<>>),
     File("runs.json", "list", "absent", EmptyDict,
          <<DictEntry(Flat(20, 20, 6), "absent"), DictEntry(Flat(100, 10, 9), "absent"),
            DictEntry(Flat(100, 40, 12), "absent")>>),
     File("wrapped.json", "dict", "list", [total |-> Num(1)],
          <<DictEntry(Flat(100, 40, 8), "absent")>>),
     File("broken.json", "unparseable", "absent", EmptyDict, <<>>),
     File("number.json", "scalar", "absent", EmptyDict, <<>>),
     File("odd.json", "dict", "scalar", [total |-> Num(1)], <<>>),
     File("scal_1.json", "dict", "dict", DashboardRun(20, 1, 1, 4), <<>>),
     File("scal_2.json", "dict", "dict", DashboardRun(20, 3, 1, 6), <<>>),
     File("scal_3.json", "dict", "dict", DashboardRun(20, 1, 0, 11), <<>>),
     File("base_1.json", "dict", "dict", BaselineRun(20, 4, 30), <<>>),
     File("churn_1.json", "dict", "dict", HighChurnRun(20, 2, 2, 9), <<>>),
     File("experiments_summary.json", "dict", "absent", [runs |-> Num(3)], <<>>)}

\* load_results (analyze_results.py): what one iteration of the loop appends
LoadResultsAppends(f) ==
    IF f.name = "experiments_summary.json" \/ f.kind # "dict"
    THEN <<>>
    ELSE <<DictEntry(f.data @@ ("_filename" :> f.name), f.resultsKind)>>

\* load_results (analyze_results.py): whether the iteration prints a warning
LoadResultsWarns(f) ==
    f.name # "experiments_summary.json" /\ f.kind # "dict"

\* iterating a dict yields its keys
KeysOf(d) ==
    LET RECURSIVE Each(_)
        Each(S) == IF S = {} THEN <<>>
                   ELSE LET k == CHOOSE k \in S : TRUE
                        IN  <<OtherEntry>> \o Each(S \ {k})
    IN  Each(DOMAIN d)

\* load_results_from_directory (analyze-multi-run.py): what one iteration appends
LoadFromDirectoryAppends(f) ==
    CASE f.kind = "list" -> f.items
      [] f.kind = "dict" /\ f.resultsKind = "list" -> f.items
      [] f.kind = "dict" /\ f.resultsKind = "dict" -> KeysOf(f.data["results"])
      [] f.kind = "dict" /\ f.resultsKind = "absent" -> <<DictEntry(f.data, "absent")>>
      [] OTHER -> <<>>

\* load_results_from_directory: whether the iteration prints a warning
LoadFromDirectoryWarns(f) ==
    \/ f.kind = "unparseable"
    \/ f.kind = "dict" /\ f.resultsKind = "scalar"

\* load_results (plot-metrics.py): the list returned for the one input file;
\* a file that does not parse raises
PlotLoadRaises(f) == f.kind = "unparseable"

PlotLoadResults(f) ==
    CASE f.kind = "list" -> f.items
      [] f.kind = "dict" /\ f.resultsKind = "list" -> f.items
      [] f.kind = "dict" /\ f.resultsKind = "dict" -> KeysOf(f.data["results"])
      [] f.kind = "dict" /\ f.resultsKind = "absent" -> <<DictEntry(f.data, "absent")>>
      [] f.kind = "dict" /\ f.resultsKind = "scalar" -> <<OtherEntry>>
      [] OTHER -> <<OtherEntry>>

\* extract_metrics raises on an entry whose 'results' is not an object
ExtractRaises(e) == ~e.isDict \/ e.resultsKind \in {"list", "scalar"}

\* e.get(...) raises on an entry that is not a dict
GetRaises(e) == ~e.isDict

AnyExtractRaises(rs) == \E i \in 1..Len(rs) : ExtractRaises(rs[i])

AnyGetRaises(rs) == \E i \in 1..Len(rs) : GetRaises(rs[i])

\* the field f of every record, in list order
FieldOf(rs, f) == [i \in 1..Len(rs) |-> Get(rs[i], f, Num(0))]

\* the values of the records whose key is k, in list order
Column(keys, values, k) ==
    LET RECURSIVE Go(_)
        Go(i) == IF i > Len(keys) THEN <<>>
                 ELSE (IF keys[i] = k THEN <<values[i]>> ELSE <<>>) \o Go(i + 1)
    IN  Go(1)

\* the records of the loaded entries
Recs(rs) == [i \in 1..Len(rs) |-> rs[i].rec]

PeersSimulated(e) == Get(e.rec, "peersSimulated", Num(0))

\* analyze_by_peer_count (analyze-multi-run.py)
analyze_by_peer_count(rs) ==
    LET peer_counts == [i \in 1..Len(rs) |-> PeersSimulated(rs[i])]
        Of(f, k) == Column(peer_counts, FieldOf(Recs(rs), f), k)
    IN  [k \in {peer_counts[i] : i \in 1..Len(rs)} |->
            LET cache_hit_ratios == Of("cacheHitRatio", k)
                latencies == Of("avgLatency", k)
            IN  [count |-> Len(cache_hit_ratios),
                 avg_cache_hit_ratio |-> Mean(cache_hit_ratios),
                 std_cache_hit_ratio |->
                     IF Len(cache_hit_ratios) > 1 THEN Stdev(cache_hit_ratios)
                     ELSE PySqrt(Num(0)),
                 avg_latency |-> Mean(latencies),
                 std_latency |->
                     IF Len(latencies) > 1 THEN Stdev(latencies) ELSE PySqrt(Num(0)),
                 avg_bandwidth_saved |-> Mean(Of("bandwidthSaved", k)),
                 avg_fairness |-> Mean(Of("jainFairnessIndex", k)),
                 avg_latency_improvement |-> Mean(Of("latencyImprovement", k))]]

\* plot_cache_hit_ratio_by_peers (plot-metrics.py): the points and error bars
plot_cache_hit_ratio_by_peers(rs) ==
    LET peer_counts == [i \in 1..Len(rs) |-> PeersSimulated(rs[i])]
    IN  [k \in {peer_counts[i] : i \in 1..Len(rs)} |->
            LET ratios == Column(peer_counts, FieldOf(Recs(rs), "cacheHitRatio"), k)
            IN  [count |-> Len(ratios),
                 y_value |-> Mean(ratios),
                 y_std |-> IF Len(ratios) > 1 THEN NpStd(ratios) ELSE PySqrt(Num(0))]]

\* the grouping key of create_summary_table
SummaryKey(m) == <<m.scenario, m.numPeers, m.joinRate, m.churnRate, m.baselineMode>>

\* create_summary_table (analyze_results.py): the grouped means and the
\* columns rounded for display
create_summary_table(rs) ==
    LET metrics == [i \in 1..Len(rs) |-> extract_metrics(rs[i].rec)]
        keys == [i \in 1..Len(rs) |-> SummaryKey(metrics[i])]
        Of(f, key) == Column(keys, [i \in 1..Len(rs) |-> metrics[i][f]], key)
    IN  [key \in {keys[i] : i \in 1..Len(rs)} |->
            LET latency == Mean(Of("networkAvgLatency", key))
                hit_ratio == Mean(Of("networkCacheHitRatio", key))
                network == Mean(Of("networkRequests", key))
            IN  [latency_for_summary |-> latency,
                 hit_ratio_for_summary |-> hit_ratio,
                 network_requests_for_summary |-> network,
                 originRequests |-> Mean(Of("originRequests", key)),
                 jainFairnessIndex |-> Mean(Of("jainFairnessIndex", key)),
                 totalRequests |-> Mean(Of("totalRequests", key)),
                 networkAvgLatencyMs |-> Round(latency, 1),
                 networkCacheHitRatioPct |-> Round(hit_ratio, 2),
                 networkRequestsRounded |-> PyInt(Round(network, 0))]]

\* the metrics frame of the loaded records
MetricsOf(rs) == [i \in 1..Len(rs) |-> extract_metrics(rs[i].rec)]

\* df[~df['baselineMode']]
IsP2P(m) == ~m.baselineMode

\* df[(df['scenario'] == 'high_churn') & (df['baselineMode'] == False)]
IsHighChurn(m) == m.scenario = "high_churn" /\ m.baselineMode = FALSE

\* create_jains_fairness_table (analyze_results.py): the cells of the pivot
\* saved as jains_fairness_table.csv
FairnessCells(metrics) ==
    {<<metrics[i].scenario, metrics[i].numPeers>> :
        i \in {j \in 1..Len(metrics) : IsP2P(metrics[j])}}

\* the frame with every record kept
WholeFrame(metrics) == metrics

\* df_p2p = df[~df['baselineMode']]
P2PFrame(metrics) == SelectSeq(metrics, IsP2P)

\* create_jains_fairness_table: the pivot scenario x numPeers -> mean
\* jainFairnessIndex, over the cells that hold a record
FairnessPivot(metrics) ==
    LET df_p2p == P2PFrame(metrics)
        keys == [i \in 1..Len(df_p2p) |-> <<df_p2p[i].scenario, df_p2p[i].numPeers>>]
        values == [i \in 1..Len(df_p2p) |-> df_p2p[i].jainFairnessIndex]
    IN  [cell \in {keys[i] : i \in 1..Len(df_p2p)} |-> Mean(Column(keys, values, cell))]

\* pivot.round(3)
FairnessPivotFormatted(pivot) == [cell \in DOMAIN pivot |-> Round(pivot[cell], 3)]

\* the pivot of an empty frame is built by the data-frame library: it comes
\* back empty or raises
EmptyPivotOutcomes(rs) ==
    IF rs = <<>> \/ AnyExtractRaises(rs) \/ FairnessCells(MetricsOf(rs)) # {}
    THEN {FALSE}
    ELSE BOOLEAN

\* create_baseline_vs_high_churn_comparison (analyze_results.py): the rows of
\* baseline_vs_high_churn.csv, the baseline rows first
ChurnComparisonRows(metrics) ==
    LET RECURSIVE Rows(_, _)
        Rows(i, high) ==
            IF i > Len(metrics) THEN <<>>
            ELSE (IF ~high /\ metrics[i].baselineMode = TRUE
                  THEN <<[Scenario |-> "Baseline", NumPeers |-> metrics[i].numPeers]>>
                  ELSE IF high /\ IsHighChurn(metrics[i])
                  THEN <<[Scenario |-> "High Churn", NumPeers |-> metrics[i].numPeers]>>
                  ELSE <<>>)
                 \o Rows(i + 1, high)
    IN  Rows(1, FALSE) \o Rows(1, TRUE)

\* the tables main of analyze_results.py leaves in the output directory
AnalysisTables(rs) ==
    ("jains_fairness_table.csv" :> FairnessPivotFormatted(FairnessPivot(MetricsOf(rs))))
    @@ ("jains_fairness_bar_chart.png" :> FairnessPivot(MetricsOf(rs)))
    @@ ("baseline_vs_high_churn.csv" :> ChurnComparisonRows(MetricsOf(rs)))
    @@ ("summary_table.csv" :> DOMAIN create_summary_table(rs))

Tools == {"analyze_results", "analyze_multi_run", "plot_metrics"}

InitBatch ==
    /\ tool \in Tools
    /\ files \in {S \in SUBSET FilePool : Cardinality(S) <= MaxFiles}
    /\ tool = "plot_metrics" => Cardinality(files) = 1
    /\ pending = files
    /\ results = <<>>
    /\ warnings = 0
    /\ phase = "loading"
    /\ produced = NoOutput
    /\ written = NoOutput
    /\ IdleNorm
    /\ IdleTopo
    /\ IdleInsight
    /\ IdleCommand

\* one iteration of the loop of load_results (analyze_results.py)
LoadResults ==
    /\ tool = "analyze_results" /\ phase = "loading"
    /\ \E f \in pending :
          /\ pending' = pending \ {f}
          /\ results' = results \o LoadResultsAppends(f)
          /\ warnings' = warnings + (IF LoadResultsWarns(f) THEN 1 ELSE 0)
    /\ UNCHANGED <<files, phase, tool, produced, written, normVars, topoVars, insightVars, commandVars>>

\* one iteration of the loop of load_results_from_directory
LoadResultsFromDirectory ==
    /\ tool = "analyze_multi_run" /\ phase = "loading"
    /\ \E f \in pending :
          /\ pending' = pending \ {f}
          /\ results' = results \o LoadFromDirectoryAppends(f)
          /\ warnings' = warnings + (IF LoadFromDirectoryWarns(f) THEN 1 ELSE 0)
    /\ UNCHANGED <<files, phase, tool, produced, written, normVars, topoVars, insightVars, commandVars>>

\* load_results of plot-metrics.py: one file, no exception handler
PlotLoadResultsFile ==
    /\ tool = "plot_metrics" /\ phase = "loading"
    /\ \E f \in pending :
          /\ pending' = pending \ {f}
          /\ IF PlotLoadRaises(f)
             THEN results' = results /\ phase' = "aborted"
             ELSE results' = PlotLoadResults(f) /\ phase' = "loading"
    /\ UNCHANGED <<files, warnings, tool, produced, written, normVars, topoVars, insightVars, commandVars>>

\* what follows the load: main's empty check, then normalisation and
\* aggregation of the whole list
Finish(name, raises, value) ==
    /\ tool = name /\ phase = "loading" /\ pending = {}
    /\ IF results = <<>> /\ name # "plot_metrics"
       THEN phase' = "empty" /\ produced' = produced
       ELSE IF raises
            THEN phase' = "aborted" /\ produced' = produced
            ELSE phase' = "done" /\ produced' = value
    /\ UNCHANGED <<files, pending, results, warnings, tool, normVars, topoVars,
                   insightVars, commandVars>>

\* main of analyze_results.py after the load: the fairness table, the churn
\* comparison and the summary table, each saved by its function
AnalyzeResults ==
    \E pivot_raises \in EmptyPivotOutcomes(results) :
        /\ Finish("analyze_results", AnyExtractRaises(results) \/ pivot_raises,
                  create_summary_table(results))
        /\ written' = IF phase' = "done" THEN AnalysisTables(results) ELSE written

AnalyzeMultiRun ==
    /\ Finish("analyze_multi_run", AnyGetRaises(results), analyze_by_peer_count(results))
    /\ UNCHANGED written

PlotMetrics ==
    /\ Finish("plot_metrics", AnyGetRaises(results), plot_cache_hit_ratio_by_peers(results))
    /\ UNCHANGED written

NextBatch ==
    \/ LoadResults
    \/ LoadResultsFromDirectory
    \/ PlotLoadResultsFile
    \/ AnalyzeResults
    \/ AnalyzeMultiRun
    \/ PlotMetrics

SpecBatch == InitBatch /\ [][NextBatch]_vars

-----------------------------------------------------------------------------
\* Topology: connection reconstruction from one record's event logs.

\* the source names of the model that contain "origin" once lower-cased
ContainsOrigin(source) == source \in {"origin", "Origin-CDN"}

\* event.get('target', event.get('peerId', ''))
TargetOf(event) == Get(event, "target", Get(event, "peerId", ""))

\* the tuple the loop adds for one transfer event, if it adds one
ConnectionOf(event) ==
    LET source == Get(event, "source", "")
        target == TargetOf(event)
    IN  IF /\ Get(event, "success", FALSE)
           /\ source # "" /\ target # "" /\ ~ContainsOrigin(source)
        THEN {<<source, target>>}
        ELSE {}

\* the set built by the loop over transfer_events
Connections(transfer_events) ==
    UNION {ConnectionOf(transfer_events[i]) : i \in 1..Len(transfer_events)}

\* counts that credit a connection to its source end only
PeerConnectionCountsOfSources(connections) ==
    [p \in {c[1] : c \in connections} |->
        Cardinality({c \in connections : c[1] = p})]

\* peer_connection_counts: one count per end of every connection
PeerConnectionCounts(connections) ==
    [p \in {c[1] : c \in connections} \cup {c[2] : c \in connections} |->
        Cardinality({c \in connections : c[1] = p})
        + Cardinality({c \in connections : c[2] = p})]

\* the values of a dict of counts, as a list
CountValues(counts) ==
    LET RECURSIVE Each(_)
        Each(S) == IF S = {} THEN <<>>
                   ELSE LET k == CHOOSE k \in S : TRUE
                        IN  <<Num(counts[k])>> \o Each(S \ {k})
    IN  Each(DOMAIN counts)

\* the values of a dict of numbers, as a list
CountTimes(times) ==
    LET RECURSIVE Each(_)
        Each(S) == IF S = {} THEN <<>>
                   ELSE LET k == CHOOSE k \in S : TRUE
                        IN  <<times[k]>> \o Each(S \ {k})
    IN  Each(DOMAIN times)

MaxOf(xs) == CHOOSE x \in {xs[i] : i \in 1..Len(xs)} :
                 \A i \in 1..Len(xs) : ~Gt(xs[i], x)

\* analyze_network_density (analyze_peer_behavior.py)
analyze_network_density(join_events, transfer_events) ==
    IF join_events = <<>>
    THEN [error |-> "No join events"]
    ELSE LET connections == Connections(transfer_events)
             num_peers == Len(join_events)
             num_connections == Cardinality(connections)
             max_connections ==
                 IF num_peers > 1 THEN Div(Num(num_peers * (num_peers - 1)), Num(2))
                 ELSE Num(0)
             peer_connection_counts == PeerConnectionCounts(connections)
             values == CountValues(peer_connection_counts)
         IN  [error |-> "",
              num_peers |-> num_peers,
              num_connections |-> num_connections,
              max_possible_connections |-> max_connections,
              connection_density |->
                  IF Gt(max_connections, Num(0))
                  THEN Div(Num(num_connections), max_connections) ELSE Num(0),
              avg_connections_per_peer |->
                  IF values # <<>> THEN Mean(values) ELSE Num(0),
              max_connections_per_peer |->
                  IF values # <<>> THEN MaxOf(values) ELSE Num(0),
              connection_distribution |-> peer_connection_counts]

MinOf(xs) == CHOOSE x \in {xs[i] : i \in 1..Len(xs)} :
                 \A i \in 1..Len(xs) : ~Gt(x, xs[i])

\* sorted(...) of a list of numbers
RECURSIVE Sorted(_)
Sorted(xs) ==
    IF xs = <<>> THEN <<>>
    ELSE LET lo == MinOf(xs)
             at == CHOOSE i \in 1..Len(xs) : xs[i] = lo
         IN  <<lo>> \o Sorted(SubSeq(xs, 1, at - 1) \o SubSeq(xs, at + 1, Len(xs)))

\* np.median of a sorted list
Median(sorted) ==
    LET n == Len(sorted)
    IN  IF n % 2 = 1 THEN sorted[(n + 1) \div 2]
        ELSE Div(Add(sorted[n \div 2], sorted[n \div 2 + 1]), Num(2))

\* (timestamp - start_time) / 1000
Seconds(timestamp, start_time) == Div(Sub(timestamp, start_time), Num(1000))

\* peer_content_times when every successful transfer overwrites the time
RECURSIVE PeerContentTimesLastArrival(_, _)
PeerContentTimesLastArrival(transfer_events, start_time) ==
    IF transfer_events = <<>> THEN EmptyDict
    ELSE LET n == Len(transfer_events)
             seen == PeerContentTimesLastArrival(SubSeq(transfer_events, 1, n - 1),
                                                 start_time)
             event == transfer_events[n]
             target == TargetOf(event)
         IN  IF Get(event, "success", FALSE) /\ target # ""
             THEN (target :> Seconds(Get(event, "timestamp", Num(0)), start_time))
                  @@ seen
             ELSE seen

\* peer_content_times after the loop over transfer_events: the first
\* successful transfer to a target, in list order, fixes its time
RECURSIVE PeerContentTimes(_, _)
PeerContentTimes(transfer_events, start_time) ==
    IF transfer_events = <<>> THEN EmptyDict
    ELSE LET n == Len(transfer_events)
             seen == PeerContentTimes(SubSeq(transfer_events, 1, n - 1), start_time)
             event == transfer_events[n]
             target == TargetOf(event)
         IN  IF /\ Get(event, "success", FALSE)
                /\ target # "" /\ target \notin DOMAIN seen
             THEN seen @@ (target :> Seconds(Get(event, "timestamp", Num(0)), start_time))
             ELSE seen

\* origin_fetches after the loop over transfer_events
RECURSIVE OriginFetches(_, _)
OriginFetches(transfer_events, start_time) ==
    IF transfer_events = <<>> THEN <<>>
    ELSE LET event == Head(transfer_events)
             source == Get(event, "source", "")
         IN  (IF /\ Get(event, "success", FALSE)
                 /\ (ContainsOrigin(source) \/ source = "")
              THEN <<Seconds(Get(event, "timestamp", Num(0)), start_time)>>
              ELSE <<>>)
             \o OriginFetches(Tail(transfer_events), start_time)

\* analyze_content_propagation_timeline (analyze_peer_behavior.py); the
\* record also shows the peer_content_times the function built
\* the duration measured from the start of the simulation
PropagationDurationSinceStart(propagation_times) ==
    IF Len(propagation_times) > 1
    THEN propagation_times[Len(propagation_times)]
    ELSE Num(0)

\* 'propagation_duration' of the sorted content times
PropagationDuration(propagation_times) ==
    IF Len(propagation_times) > 1
    THEN Sub(propagation_times[Len(propagation_times)], propagation_times[1])
    ELSE Num(0)

\* 'propagation_rate': peers per second
PropagationRate(peers, propagation_duration) ==
    IF Gt(propagation_duration, Num(0))
    THEN Div(Num(peers), propagation_duration)
    ELSE Num(0)

analyze_content_propagation_timeline(join_events, transfer_events) ==
    IF transfer_events = <<>> \/ join_events = <<>>
    THEN [error |-> "Missing data for timeline analysis"]
    ELSE LET start_time ==
                 MinOf([i \in 1..Len(join_events) |->
                           Get(join_events[i], "timestamp", Num(0))])
             peer_content_times == PeerContentTimes(transfer_events, start_time)
             origin_fetches == OriginFetches(transfer_events, start_time)
         IN  IF DOMAIN peer_content_times = {}
             THEN [error |-> "No content propagation data"]
             ELSE LET propagation_times == Sorted(CountTimes(peer_content_times))
                      n == Len(propagation_times)
                      propagation_duration == PropagationDuration(propagation_times)
                  IN  [error |-> "",
                       peer_content_times |-> peer_content_times,
                       first_content_time |-> propagation_times[1],
                       median_content_time |-> Median(propagation_times),
                       last_content_time |-> propagation_times[n],
                       propagation_duration |-> propagation_duration,
                       peers_with_content_over_time |-> n,
                       origin_fetch_times |-> origin_fetches,
                       num_origin_fetches |-> Len(origin_fetches),
                       propagation_rate |-> PropagationRate(n, propagation_duration)]

\* the transfer events a log may hold
TransferEvents ==
    {[success |-> TRUE, source |-> "A", target |-> "B", timestamp |-> Num(6000)],
     [success |-> TRUE, source |-> "A", target |-> "B", timestamp |-> Num(10000)],
     [success |-> TRUE, source |-> "C", target |-> "B", timestamp |-> Num(2000)],
     [success |-> TRUE, source |-> "B", target |-> "A", timestamp |-> Num(10000)],
     [success |-> TRUE, source |-> "A", peerId |-> "C", timestamp |-> Num(6000)],
     [success |-> TRUE, source |-> "origin", target |-> "A", timestamp |-> Num(2000)],
     [success |-> TRUE, source |-> "Origin-CDN", target |-> "B", timestamp |-> Num(10000)],
     [success |-> TRUE, source |-> "", target |-> "B", timestamp |-> Num(6000)],
     [success |-> TRUE, target |-> "C"],
     [success |-> TRUE, source |-> "B", timestamp |-> Num(6000)],
     [success |-> TRUE, source |-> "C", target |-> "C", timestamp |-> Num(6000)],
     [success |-> FALSE, source |-> "B", target |-> "C", timestamp |-> Num(2000)],
     [source |-> "C", target |-> "A", timestamp |-> Num(2000)]}

\* a join log of n peers
JoinLog(n) ==
    [i \in 1..n |-> [peerId |-> <<"A", "B", "C", "D", "E">>[i],
                     timestamp |-> Num(1000 * i)]]

InitTopo ==
    /\ joins \in {JoinLog(n) : n \in 0..MaxJoins}
    /\ events \in UNION {[1..n -> TransferEvents] : n \in 0..MaxEvents}
    /\ timeline = NoOutput
    /\ density = NoOutput
    /\ IdleNorm
    /\ IdleBatch
    /\ IdleInsight
    /\ IdleCommand

\* create_comparison_report runs the timeline analysis of a record, then its
\* density analysis
AnalyzeContentPropagationTimeline ==
    /\ timeline = NoOutput
    /\ timeline' = analyze_content_propagation_timeline(joins, events)
    /\ UNCHANGED <<events, joins, density, normVars, batchVars, insightVars, commandVars>>

AnalyzeNetworkDensity ==
    /\ timeline # NoOutput
    /\ density = NoOutput
    /\ density' = analyze_network_density(joins, events)
    /\ UNCHANGED <<events, joins, timeline, normVars, batchVars, insightVars, commandVars>>

NextTopo ==
    \/ AnalyzeContentPropagationTimeline
    \/ AnalyzeNetworkDensity

SpecTopo == InitTopo /\ [][NextTopo]_vars

-----------------------------------------------------------------------------
\* Join pattern and anchor load: one flash-crowd record, one analysis call.

\* a JSON value of anchorNodes with its type: an object (node -> value), a
\* list of items, a string or a number; a value or item is an object (rec)
\* or a plain value
AnchorObject(rec) == [isDict |-> TRUE, rec |-> rec, value |-> PyNone]
AnchorPlain(value) == [isDict |-> FALSE, rec |-> EmptyDict, value |-> value]
AnchorDict(entries) == [kind |-> "dict", entries |-> entries, items |-> <<>>]
AnchorList(items) == [kind |-> "list", entries |-> EmptyDict, items |-> items]
AnchorString == [kind |-> "string", entries |-> EmptyDict, items |-> <<>>]
AnchorNumber == [kind |-> "number", entries |-> EmptyDict, items |-> <<>>]

\* truthiness of the anchorNodes value (the string and the number of the
\* model are a non-empty string and a non-zero number)
AnchorTruthy(anchor_nodes) ==
    CASE anchor_nodes.kind = "dict" -> DOMAIN anchor_nodes.entries # {}
      [] anchor_nodes.kind = "list" -> anchor_nodes.items # <<>>
      [] OTHER -> TRUE

\* item.get('peerId') or item.get('nodeId') or str(item)
NodeIdOf(item) ==
    IF Get(item.rec, "peerId", "") # "" THEN item.rec["peerId"]
    ELSE IF Get(item.rec, "nodeId", "") # "" THEN item.rec["nodeId"]
    ELSE "str(item)"

\* anchor_loads after the loop over a list of anchor items
RECURSIVE AnchorLoadsOfList(_)
AnchorLoadsOfList(items) ==
    IF items = <<>> THEN EmptyDict
    ELSE LET n == Len(items)
             item == items[n]
             before == AnchorLoadsOfList(SubSeq(items, 1, n - 1))
         IN  IF item.isDict
             THEN (NodeIdOf(item) :>
                      Get(item.rec, "connections",
                          Get(item.rec, "connectionCount", Num(0))))
                  @@ before
             ELSE (item.value :> Num(0)) @@ before

\* analysis['anchor_node_loads']
AnchorNodeLoads(anchor_nodes) ==
    CASE anchor_nodes.kind = "dict" ->
            [k \in DOMAIN anchor_nodes.entries |->
                IF anchor_nodes.entries[k].isDict
                THEN Get(anchor_nodes.entries[k].rec, "connections", Num(0))
                ELSE anchor_nodes.entries[k].value]
      [] anchor_nodes.kind = "list" -> AnchorLoadsOfList(anchor_nodes.items)
      [] OTHER -> EmptyDict

\* len(anchor_nodes_mc) raises on a number
AnchorRaises(microcloud) ==
    /\ "anchorNodes" \in DOMAIN microcloud
    /\ microcloud["anchorNodes"].kind = "number"

\* the anchor fields analyze_peer_join_pattern adds to its result (the string
\* of the model has two characters)
AnchorFields(microcloud) ==
    IF "anchorNodes" \notin DOMAIN microcloud \/ ~AnchorTruthy(microcloud["anchorNodes"])
    THEN EmptyDict
    ELSE LET anchor_nodes == microcloud["anchorNodes"]
             loads == AnchorNodeLoads(anchor_nodes)
             count == IF anchor_nodes.kind = "dict"
                      THEN Cardinality(DOMAIN anchor_nodes.entries)
                      ELSE IF anchor_nodes.kind = "list" THEN Len(anchor_nodes.items)
                      ELSE 2
         IN  [anchor_nodes_count |-> count,
              anchor_node_loads |-> loads,
              max_anchor_load |->
                  IF DOMAIN loads # {} THEN MaxOf(CountTimes(loads)) ELSE Num(0),
              avg_anchor_load |->
                  IF DOMAIN loads # {} THEN Mean(CountTimes(loads)) ELSE Num(0)]

\* [e['timestamp'] for e in join_events] raises when an event has none
TimestampsRaise(join_events) ==
    \E i \in 1..Len(join_events) : "timestamp" \notin DOMAIN join_events[i]

\* join times in seconds from the first join
JoinTimes(join_events) ==
    IF join_events = <<>> THEN <<>>
    ELSE LET timestamps == [i \in 1..Len(join_events) |-> join_events[i]["timestamp"]]
             start_time == MinOf(timestamps)
         IN  [i \in 1..Len(timestamps) |-> Seconds(timestamps[i], start_time)]

\* analyze_peer_join_pattern (analyze_peer_behavior.py)
\* peer_count / join_rate without the test of join_rate
ExpectedJoinDurationUnguarded(peer_count, join_rate) == Div(Num(peer_count), join_rate)

\* expected_join_duration = peer_count / join_rate if join_rate > 0 else 0
ExpectedJoinDuration(peer_count, join_rate) ==
    IF Gt(join_rate, Num(0)) THEN Div(Num(peer_count), join_rate) ELSE Num(0)

analyze_peer_join_pattern(data, peer_count) ==
    IF ~HasMode(data, "microcloud") \/ ~HasMode(data, "baseline")
    THEN [error |-> "KeyError"]
    ELSE LET microcloud == data["results"]["microcloud"]
             baseline == data["results"]["baseline"]
             join_events_mc == Get(microcloud, "peerJoinEvents", <<>>)
             join_events_base == Get(baseline, "peerJoinEvents", <<>>)
         IN  IF join_events_mc = <<>>
             THEN [error |-> "No join events found"]
             ELSE IF \/ TimestampsRaise(join_events_mc)
                     \/ TimestampsRaise(join_events_base)
                     \/ "configuration" \notin DOMAIN data
             THEN [error |-> "KeyError"]
             ELSE IF AnchorRaises(microcloud)
             THEN [error |-> "TypeError"]
             ELSE LET join_times_mc == JoinTimes(join_events_mc)
                      join_times_base == JoinTimes(join_events_base)
                      join_rate == Get(data["configuration"], "joinRate", Num(peer_count))
                  IN  [error |-> "",
                       join_rate_config |-> join_rate,
                       expected_join_duration |->
                           ExpectedJoinDuration(peer_count, join_rate),
                       actual_join_duration_mc |-> MaxOf(join_times_mc),
                       actual_join_duration_base |->
                           IF join_times_base # <<>> THEN MaxOf(join_times_base)
                           ELSE Num(0),
                       join_times_mc |-> join_times_mc,
                       join_times_base |-> join_times_base,
                       num_join_events_mc |-> Len(join_events_mc),
                       num_join_events_base |-> Len(join_events_base)]
                      @@ AnchorFields(microcloud)

\* len([e for e in transfer_events if e.get('success', False)])
RECURSIVE CountSuccessful(_)
CountSuccessful(transfer_events) ==
    IF transfer_events = <<>> THEN 0
    ELSE (IF Get(Head(transfer_events), "success", FALSE) THEN 1 ELSE 0)
         + CountSuccessful(Tail(transfer_events))

\* analyze_request_timing_vs_availability (analyze_peer_behavior.py)
analyze_request_timing_vs_availability(data) ==
    IF ~HasMode(data, "microcloud")
    THEN [error |-> "KeyError"]
    ELSE LET microcloud == data["results"]["microcloud"]
             successful_transfers ==
                 CountSuccessful(Get(microcloud, "fileTransferEvents", <<>>))
             origin_requests == Get(microcloud, "originRequests", Num(0))
             peer_requests == Get(microcloud, "peerRequests", Num(0))
             network_requests == Add(origin_requests, peer_requests)
         IN  [error |-> "",
              total_transfers |-> successful_transfers,
              origin_requests |-> origin_requests,
              peer_requests |-> peer_requests,
              p2p_ratio |->
                  IF Gt(network_requests, Num(0))
                  THEN Div(peer_requests, network_requests) ELSE Num(0),
              transfer_to_request_ratio |->
                  IF Gt(network_requests, Num(0))
                  THEN Div(Num(successful_transfers), network_requests) ELSE Num(0)]

\* [e for e in transfer_events if e.get('success', False)]
SuccessfulTransfer(e) == Get(e, "success", FALSE)

\* [e for e in transfer_events if not e.get('success', True)]
FailedTransfer(e) == ~Get(e, "success", TRUE)

\* 'success_rate': len(successful) / len(transfer_events) * 100
SuccessRate(successful, total) ==
    IF total # 0 THEN Mul(Div(Num(successful), Num(total)), Num(100)) ELSE Num(0)

\* source_counts over the successful transfers
SourceCounts(successful) ==
    [source \in {Get(successful[i], "source", "unknown") : i \in 1..Len(successful)} |->
        Cardinality({i \in 1..Len(successful) :
                        Get(successful[i], "source", "unknown") = source})]

\* [e.get('latency', 0) for e in successful if 'latency' in e]
RECURSIVE TransferLatencies(_)
TransferLatencies(successful) ==
    IF successful = <<>> THEN <<>>
    ELSE (IF "latency" \in DOMAIN Head(successful)
          THEN <<Head(successful)["latency"]>> ELSE <<>>)
         \o TransferLatencies(Tail(successful))

\* e.get('chunkIndex') is not None
IsChunkTransfer(e) == Get(e, "chunkIndex", PyNone) # PyNone

\* analyze_file_transfer_events (analyze_peer_behavior.py)
analyze_file_transfer_events(data, peer_count) ==
    IF ~HasMode(data, "microcloud")
    THEN [error |-> "KeyError"]
    ELSE LET microcloud == data["results"]["microcloud"]
             transfer_events == Get(microcloud, "fileTransferEvents", <<>>)
         IN  IF transfer_events = <<>>
             THEN [peer_count |-> peer_count, error |-> "No transfer events found"]
             ELSE LET successful == SelectSeq(transfer_events, SuccessfulTransfer)
                      failed == SelectSeq(transfer_events, FailedTransfer)
                      latencies == TransferLatencies(successful)
                  IN  [error |-> "",
                       peer_count |-> peer_count,
                       total_transfers |-> Len(transfer_events),
                       successful_transfers |-> Len(successful),
                       failed_transfers |-> Len(failed),
                       success_rate |->
                           SuccessRate(Len(successful), Len(transfer_events)),
                       source_distribution |-> SourceCounts(successful),
                       avg_transfer_latency |->
                           IF latencies # <<>> THEN Mean(latencies) ELSE Num(0),
                       median_transfer_latency |->
                           IF latencies # <<>> THEN Median(Sorted(latencies))
                           ELSE Num(0),
                       chunk_transfers |->
                           Len(SelectSeq(transfer_events, IsChunkTransfer))]

\* the percentile fields copied from a latencyPercentiles block
Percentiles(m, names) ==
    IF "latencyPercentiles" \in DOMAIN m
    THEN [k \in names |-> Get(m["latencyPercentiles"], k, Num(0))]
    ELSE EmptyDict

\* analyze_latency_distribution (analyze_peer_behavior.py)
analyze_latency_distribution(data) ==
    IF ~HasMode(data, "microcloud") \/ ~HasMode(data, "baseline")
    THEN [error |-> "KeyError"]
    ELSE LET microcloud == data["results"]["microcloud"]
             baseline == data["results"]["baseline"]
         IN  [error |-> "",
              microcloud |->
                  ("networkAvgLatency" :> Get(microcloud, "networkAvgLatency", Num(0)))
                  @@ Percentiles(microcloud,
                                 {"p50", "p75", "p90", "p95", "p99", "min", "max"}),
              baseline |->
                  ("networkAvgLatency" :> Get(baseline, "networkAvgLatency", Num(0)))
                  @@ Percentiles(baseline, {"p50", "p75", "p90", "p95", "p99"})]

\* Anchor sets: per node its connection count and the key a per-node record
\* carries it under.
AnchorSets ==
    {<<[node |-> "n1", count |-> Num(3), key |-> "connections"],
       [node |-> "n2", count |-> Num(5), key |-> "connections"]>>,
     <<[node |-> "n1", count |-> Num(0), key |-> "connections"]>>,
     <<[node |-> "n1", count |-> Num(4), key |-> "connectionCount"],
       [node |-> "n2", count |-> Num(2), key |-> "connections"]>>}

\* the anchors as a mapping node -> connection count
MapOfCounts(anchors) ==
    AnchorDict([k \in {anchors[i].node : i \in 1..Len(anchors)} |->
        AnchorPlain(anchors[CHOOSE i \in 1..Len(anchors) : anchors[i].node = k].count)])

\* the anchors as a mapping node -> record with its connection count
MapOfRecords(anchors) ==
    AnchorDict([k \in {anchors[i].node : i \in 1..Len(anchors)} |->
        LET a == anchors[CHOOSE i \in 1..Len(anchors) : anchors[i].node = k]
        IN  AnchorObject(a.key :> a.count)])

\* the anchors as a list of per-node records
ListOfRecords(anchors) ==
    AnchorList([i \in 1..Len(anchors) |->
        AnchorObject(((IF i % 2 = 1 THEN "peerId" ELSE "nodeId") :> anchors[i].node)
                     @@ (anchors[i].key :> anchors[i].count))])

AnchorLayouts(anchors) ==
    {MapOfCounts(anchors), MapOfRecords(anchors), ListOfRecords(anchors)}

\* anchorNodes values that are not a set of anchors with counts
OtherAnchorNodes ==
    {AnchorDict(EmptyDict), AnchorString, AnchorNumber,
     AnchorList(<<AnchorPlain("n1"), AnchorPlain("n2")>>)}

\* join logs of a record; the last one has an event without a timestamp
JoinLogs ==
    {JoinLog(MaxJoins - 1), JoinLog(MaxJoins),
     <<[peerId |-> "A", timestamp |-> Num(1000)], [peerId |-> "B"]>>}

\* a flash-crowd record around the given anchorNodes (absent when none)
JoinRecords(anchors) ==
    {c @@ ("results" :> (("microcloud" :> (j @@ l @@ anchors)) @@ b)) :
        c \in Opt("configuration", {EmptyDict, [joinRate |-> Num(2)], [joinRate |-> Num(0)]}),
        j \in Opt("peerJoinEvents", JoinLogs),
        l \in {EmptyDict,
               [networkAvgLatency |-> Num(7),
                latencyPercentiles |-> [p50 |-> Num(6), p99 |-> Num(30)]],
               [peerRequests |-> Num(3), originRequests |-> Num(1),
                fileTransferEvents |->
                    <<[source |-> "A", target |-> "B", success |-> TRUE,
                       latency |-> Num(40), chunkIndex |-> Num(0)],
                      [source |-> "A", target |-> "C"],
                      [source |-> "B", target |-> "C", success |-> FALSE]>>],
               [peerRequests |-> Num(0), originRequests |-> Num(0),
                fileTransferEvents |->
                    <<[source |-> "origin", target |-> "B", success |-> TRUE]>>]},
        b \in Opt("baseline", {EmptyDict, [peerJoinEvents |-> JoinLog(1)]})}

\* the same record around another anchorNodes value
WithAnchorNodes(r, anchor_nodes) ==
    [r EXCEPT !["results"]["microcloud"] =
        ("anchorNodes" :> anchor_nodes) @@ r["results"]["microcloud"]]

PeerCounts == {20, 100}

InitJoin ==
    /\ \E r \in JoinRecords(EmptyDict) :
          \/ result = r /\ twin = r
          \/ \E o \in OtherAnchorNodes :
                result = WithAnchorNodes(r, o) /\ twin = result
          \/ \E anchors \in AnchorSets :
                \E x \in AnchorLayouts(anchors), y \in AnchorLayouts(anchors) :
                    result = WithAnchorNodes(r, x) /\ twin = WithAnchorNodes(r, y)
    /\ op = "none"
    /\ out = NoOutput
    /\ IdleBatch
    /\ IdleTopo
    /\ IdleInsight
    /\ IdleCommand

AnalyzePeerJoinPattern ==
    \E peer_count \in PeerCounts :
        Run("analyze_peer_join_pattern", analyze_peer_join_pattern(result, peer_count))

AnalyzeLatencyDistribution ==
    Run("analyze_latency_distribution", analyze_latency_distribution(result))

AnalyzeRequestTiming ==
    Run("analyze_request_timing_vs_availability",
        analyze_request_timing_vs_availability(result))

AnalyzeFileTransferEvents ==
    \E peer_count \in PeerCounts :
        Run("analyze_file_transfer_events",
            analyze_file_transfer_events(result, peer_count))

NextJoin ==
    \/ AnalyzePeerJoinPattern
    \/ AnalyzeLatencyDistribution
    \/ AnalyzeRequestTiming
    \/ AnalyzeFileTransferEvents

SpecJoin == InitJoin /\ [][NextJoin]_vars

-----------------------------------------------------------------------------
\* Comparison report and insight generation over the analyses of several
\* peer counts.

\* thresholds of analyze_why_20_is_special
HitRatioGap == 10
EfficiencyGap == 15
SuccessGap == 5
LatencyPct == 50

\* the reference configuration
Reference == 20

\* sorted(...) of a set of peer counts
RECURSIVE SortedKeys(_)
SortedKeys(S) ==
    IF S = {} THEN <<>>
    ELSE LET lo == CHOOSE x \in S : \A y \in S : x <= y
         IN  <<lo>> \o SortedKeys(S \ {lo})

\* a dict is its keys in insertion order and the mapping itself

\* the keys after the first one inserted
OthersAfterFirst(keys) == Tail(keys)

\* sorted([p for p in all_analyses.keys() if p != 20])
Others(keys) == SortedKeys({keys[i] : i \in 1..Len(keys)} \ {Reference})

\* the messages of the flagged peer counts, in the order of the loop
RECURSIVE Section(_, _, _)
Section(others, flagged, message) ==
    IF others = <<>> THEN <<>>
    ELSE (IF flagged[Head(others)] THEN <<message[Head(others)]>> ELSE <<>>)
         \o Section(Tail(others), flagged, message)

\* an insight: its kind, the peer count it names and the numbers its text shows
Insight(kind, pc, shown) == [kind |-> kind, pc |-> pc, shown |-> shown]

\* 'error' not in analysis
NoError(analysis) == analysis.error = ""

HitRatioOf(a) == Get(a["requests"]["microcloud"], "network_cache_hit_ratio", Num(0))
EfficiencyOf(a) == Get(a["requests"]["microcloud"], "p2p_efficiency", Num(0))
LatencyOf(a) == Get(a["latency"]["microcloud"], "networkAvgLatency", Num(0))
SuccessRateOf(a) == Get(a["transfers"], "success_rate", Num(0))
MaxAnchorLoadOf(a) == Get(a["join_pattern"], "max_anchor_load", Num(0))
DensityOf(a) == Get(a["network_density"], "connection_density", Num(0))
PropagationRateOf(a) == Get(a["content_timeline"], "propagation_rate", Num(0))
P2PRatioOf(a) == Get(a["request_timing"], "p2p_ratio", Num(0))

\* cache effectiveness flagged from a gap of HitRatioGap on
CacheInsightsAtLeast(keys, all) ==
    LET diff == [pc \in DOMAIN all |-> Sub(HitRatioOf(all[Reference]), HitRatioOf(all[pc]))]
    IN  Section(Others(keys),
                [pc \in DOMAIN all |-> ~Gt(Num(HitRatioGap), diff[pc])],
                [pc \in DOMAIN all |->
                    Insight("cache_hit_ratio", pc, <<Round(diff[pc], 1)>>)])

\* 1. cache effectiveness
CacheInsights(keys, all) ==
    LET diff == [pc \in DOMAIN all |-> Sub(HitRatioOf(all[Reference]), HitRatioOf(all[pc]))]
    IN  Section(Others(keys),
                [pc \in DOMAIN all |-> Gt(diff[pc], Num(HitRatioGap))],
                [pc \in DOMAIN all |->
                    Insight("cache_hit_ratio", pc, <<Round(diff[pc], 1)>>)])

\* 2. anchor node load
AnchorInsights(keys, all) ==
    IF "max_anchor_load" \notin DOMAIN all[Reference]["join_pattern"] THEN <<>>
    ELSE LET anchor_load_20 == MaxAnchorLoadOf(all[Reference])
         IN  Section(Others(keys),
                     [pc \in DOMAIN all |->
                         /\ "max_anchor_load" \in DOMAIN all[pc]["join_pattern"]
                         /\ Gt(MaxAnchorLoadOf(all[pc]), Mul(anchor_load_20, Norm(3, 2)))],
                     [pc \in DOMAIN all |->
                         Insight("anchor_load", pc,
                                 <<MaxAnchorLoadOf(all[pc]), anchor_load_20>>)])

\* latency flagged from a growth of LatencyPct percent on
LatencyInsightsAtLeast(keys, all) ==
    LET latency_20 == LatencyOf(all[Reference])
        pct_diff == [pc \in DOMAIN all |->
                        IF Gt(latency_20, Num(0))
                        THEN Mul(Div(Sub(LatencyOf(all[pc]), latency_20), latency_20),
                                 Num(100))
                        ELSE Num(0)]
    IN  Section(Others(keys),
                [pc \in DOMAIN all |-> ~Gt(Num(LatencyPct), pct_diff[pc])],
                [pc \in DOMAIN all |-> Insight("latency", pc, <<Round(pct_diff[pc], 1)>>)])

\* 3. latency
LatencyInsights(keys, all) ==
    LET latency_20 == LatencyOf(all[Reference])
        pct_diff == [pc \in DOMAIN all |->
                        IF Gt(latency_20, Num(0))
                        THEN Mul(Div(Sub(LatencyOf(all[pc]), latency_20), latency_20),
                                 Num(100))
                        ELSE Num(0)]
    IN  Section(Others(keys),
                [pc \in DOMAIN all |-> Gt(pct_diff[pc], Num(LatencyPct))],
                [pc \in DOMAIN all |-> Insight("latency", pc, <<Round(pct_diff[pc], 1)>>)])

\* 4. P2P efficiency
EfficiencyInsights(keys, all) ==
    LET diff == [pc \in DOMAIN all |->
                    Sub(EfficiencyOf(all[Reference]), EfficiencyOf(all[pc]))]
    IN  Section(Others(keys),
                [pc \in DOMAIN all |-> Gt(diff[pc], Num(EfficiencyGap))],
                [pc \in DOMAIN all |->
                    Insight("p2p_efficiency", pc, <<Round(diff[pc], 1)>>)])

\* 5. transfer success rate
SuccessInsights(keys, all) ==
    IF "success_rate" \notin DOMAIN all[Reference]["transfers"] THEN <<>>
    ELSE LET diff == [pc \in DOMAIN all |->
                         Sub(SuccessRateOf(all[Reference]), SuccessRateOf(all[pc]))]
         IN  Section(Others(keys),
                     [pc \in DOMAIN all |->
                         /\ "success_rate" \in DOMAIN all[pc]["transfers"]
                         /\ Gt(diff[pc], Num(SuccessGap))],
                     [pc \in DOMAIN all |->
                         Insight("transfer_success", pc, <<Round(diff[pc], 1)>>)])

\* density compared without looking at the other configuration's error
DensityInsightsIgnoringErrors(keys, all) ==
    IF ~NoError(all[Reference]["network_density"]) THEN <<>>
    ELSE LET density_20 == DensityOf(all[Reference])
         IN  Section(Others(keys),
                     [pc \in DOMAIN all |->
                         Gt(Mul(density_20, Norm(4, 5)), DensityOf(all[pc]))],
                     [pc \in DOMAIN all |->
                         Insight("connection_density", pc,
                                 <<Round(Mul(DensityOf(all[pc]), Num(100)), 1),
                                   Round(Mul(density_20, Num(100)), 1)>>)])

\* mechanism 1: network density
DensityInsights(keys, all) ==
    IF ~NoError(all[Reference]["network_density"]) THEN <<>>
    ELSE LET density_20 == DensityOf(all[Reference])
         IN  Section(Others(keys),
                     [pc \in DOMAIN all |->
                         /\ NoError(all[pc]["network_density"])
                         /\ Gt(Mul(density_20, Norm(4, 5)), DensityOf(all[pc]))],
                     [pc \in DOMAIN all |->
                         Insight("connection_density", pc,
                                 <<Round(Mul(DensityOf(all[pc]), Num(100)), 1),
                                   Round(Mul(density_20, Num(100)), 1)>>)])

\* mechanism 2: content propagation
PropagationInsights(keys, all) ==
    IF ~NoError(all[Reference]["content_timeline"]) THEN <<>>
    ELSE LET rate_20 == PropagationRateOf(all[Reference])
         IN  Section(Others(keys),
                     [pc \in DOMAIN all |->
                         /\ NoError(all[pc]["content_timeline"])
                         /\ Gt(Mul(rate_20, Norm(7, 10)), PropagationRateOf(all[pc]))],
                     [pc \in DOMAIN all |->
                         Insight("propagation_rate", pc,
                                 <<Round(PropagationRateOf(all[pc]), 1),
                                   Round(rate_20, 1)>>)])

\* mechanism 3: request timing
TimingInsights(keys, all) ==
    LET ratio_20 == P2PRatioOf(all[Reference])
    IN  Section(Others(keys),
                [pc \in DOMAIN all |->
                    Gt(Mul(ratio_20, Norm(7, 10)), P2PRatioOf(all[pc]))],
                [pc \in DOMAIN all |->
                    Insight("p2p_ratio", pc,
                            <<Round(Mul(P2PRatioOf(all[pc]), Num(100)), 1),
                              Round(Mul(ratio_20, Num(100)), 1)>>)])

\* the insights in the list when it is printed
PrintedInsights(keys, all) ==
    IF Reference \notin DOMAIN all THEN <<>>
    ELSE CacheInsights(keys, all) \o AnchorInsights(keys, all) \o LatencyInsights(keys, all)
         \o EfficiencyInsights(keys, all) \o SuccessInsights(keys, all)

\* the insights appended by the mechanism analysis, which follows the print
MechanismInsights(keys, all) ==
    IF Reference \notin DOMAIN all THEN <<>>
    ELSE DensityInsights(keys, all) \o PropagationInsights(keys, all)
         \o TimingInsights(keys, all)

\* analyze_why_20_is_special (analyze_peer_behavior.py): the insights list
analyze_why_20_is_special(keys, all) ==
    PrintedInsights(keys, all) \o MechanismInsights(keys, all)

\* the rows of peer_behavior_comparison_all.csv: metric -> peer count -> value
ComparisonTable(all) ==
    LET first == all[SortedKeys(DOMAIN all)[1]]
        Row(Field(_)) == [pc \in DOMAIN all |-> Round2(Field(all[pc]))]
        OriginRequestsOf(a) == Get(a["requests"]["microcloud"], "origin_requests", Num(0))
        PeerRequestsOf(a) == Get(a["requests"]["microcloud"], "peer_requests", Num(0))
    IN  [networkAvgLatency |-> Row(LatencyOf),
         network_cache_hit_ratio |-> Row(HitRatioOf),
         p2p_efficiency |-> Row(EfficiencyOf),
         origin_requests |-> Row(OriginRequestsOf),
         peer_requests |-> Row(PeerRequestsOf)]
        @@ (IF "success_rate" \in DOMAIN first["transfers"]
            THEN "success_rate" :> Row(SuccessRateOf) ELSE EmptyDict)
        @@ (IF "max_anchor_load" \in DOMAIN first["join_pattern"]
            THEN "max_anchor_load" :> [pc \in DOMAIN all |-> MaxAnchorLoadOf(all[pc])]
            ELSE EmptyDict)

\* create_multi_peer_comparison_charts highlights all_analyses[20] in its
\* first chart and raises when there is none
ChartsRaise(all) == Reference \notin DOMAIN all

\* create_comparison_report (analyze_peer_behavior.py), from the analyses on:
\* the table is saved, then the charts are drawn, then the insights generated
create_comparison_report(keys, all) ==
    [table |-> ComparisonTable(all),
     charts |-> IF ChartsRaise(all) THEN "KeyError" ELSE "saved",
     raised |-> ChartsRaise(all),
     insights_generated |-> ~ChartsRaise(all) /\ Reference \in DOMAIN all,
     printed |-> IF ChartsRaise(all) THEN <<>> ELSE PrintedInsights(keys, all)]

\* the analysis of one configuration, with the fields the report reads
BaseAnalysis ==
    [requests |-> [microcloud |-> [network_cache_hit_ratio |-> Num(85),
                                   p2p_efficiency |-> Num(90),
                                   origin_requests |-> Num(3),
                                   peer_requests |-> Num(27)]],
     latency |-> [microcloud |-> [networkAvgLatency |-> Num(10)]],
     transfers |-> [success_rate |-> Num(99)],
     join_pattern |-> [error |-> "", max_anchor_load |-> Num(4),
                       avg_anchor_load |-> Num(3)],
     network_density |-> [error |-> "", connection_density |-> Norm(1, 2)],
     content_timeline |-> [error |-> "", propagation_rate |-> Num(10)],
     request_timing |-> [p2p_ratio |-> Norm(9, 10)]]

WithRequests(a, key, value) ==
    [a EXCEPT !["requests"] =
        [microcloud |-> [k \in DOMAIN a["requests"]["microcloud"] |->
                            IF k = key THEN value ELSE a["requests"]["microcloud"][k]]]]

WithLatency(a, value) ==
    [a EXCEPT !["latency"] = [microcloud |-> [networkAvgLatency |-> value]]]

WithSection(a, section, value) == [a EXCEPT ![section] = value]

\* the outcomes of the sub-analyses that lack their metric
NoTransfers == [error |-> "No transfer events found"]
NoAnchors == [error |-> ""]
NoDensity == [error |-> "No join events"]
NoTimeline == [error |-> "No content propagation data"]

\* analyses of the 20-peer configuration
ReferenceAnalyses ==
    LET bases == {BaseAnalysis, WithLatency(BaseAnalysis, Num(0))}
    IN  bases
        \cup {WithSection(b, "transfers", NoTransfers) : b \in bases}
        \cup {WithSection(b, "join_pattern", NoAnchors) : b \in bases}
        \cup {WithSection(b, "network_density", NoDensity) : b \in bases}
        \cup {WithSection(b, "content_timeline", NoTimeline) : b \in bases}

\* analyses of the other configurations: one metric away from the base
OtherAnalyses ==
    {BaseAnalysis}
    \cup {WithRequests(BaseAnalysis, "network_cache_hit_ratio", v) :
            v \in {Num(60), Num(30), Num(75), Norm(749, 10)}}
    \cup {WithRequests(BaseAnalysis, "p2p_efficiency", v) : v \in {Num(75), Num(74)}}
    \cup {WithLatency(BaseAnalysis, v) : v \in {Num(15), Num(16), Num(5)}}
    \cup {WithSection(BaseAnalysis, "transfers", v) :
            v \in {NoTransfers, [success_rate |-> Num(94)], [success_rate |-> Num(93)]}}
    \cup {WithSection(BaseAnalysis, "join_pattern", v) :
            v \in {NoAnchors,
                   [error |-> "", max_anchor_load |-> Num(6), avg_anchor_load |-> Num(3)],
                   [error |-> "", max_anchor_load |-> Num(7), avg_anchor_load |-> Num(3)]}}
    \cup {WithSection(BaseAnalysis, "network_density", v) :
            v \in {NoDensity,
                   [error |-> "", connection_density |-> Norm(2, 5)],
                   [error |-> "", connection_density |-> Norm(3, 10)]}}
    \cup {WithSection(BaseAnalysis, "content_timeline", v) :
            v \in {NoTimeline,
                   [error |-> "", propagation_rate |-> Num(7)],
                   [error |-> "", propagation_rate |-> Num(6)]}}
    \cup {WithSection(BaseAnalysis, "request_timing", v) :
            v \in {[p2p_ratio |-> Norm(63, 100)], [p2p_ratio |-> Norm(31, 50)]}}

\* the peer counts whose result files were found
FoundPeerCounts == {{20}, {100}, {20, 100}, {100, 500}, {20, 100, 500}}

\* the orders in which the keys of S can have been inserted
InsertionOrders(S) ==
    {order \in [1..Cardinality(S) -> S] : \A pc \in S : \E i \in DOMAIN order : order[i] = pc}

InitInsight ==
    /\ \E found \in FoundPeerCounts :
          /\ \E ref \in ReferenceAnalyses, x \in OtherAnalyses, y \in OtherAnalyses :
                analyses = [pc \in found |->
                              IF pc = Reference THEN ref ELSE IF pc = 100 THEN x ELSE y]
          /\ inserted \in InsertionOrders(found)
    /\ insights = <<>>
    /\ report = NoOutput
    /\ IdleNorm
    /\ IdleBatch
    /\ IdleTopo
    /\ IdleCommand

\* create_comparison_report, from the analyses of the loaded results on
CreateComparisonReport ==
    /\ analyses # NoOutput
    /\ report = NoOutput
    /\ report' = create_comparison_report(inserted, analyses)
    /\ insights' = IF ChartsRaise(analyses) THEN <<>>
                   ELSE analyze_why_20_is_special(inserted, analyses)
    /\ UNCHANGED <<analyses, inserted, normVars, batchVars, topoVars, commandVars>>

NextInsight == CreateComparisonReport

SpecInsight == InitInsight /\ [][NextInsight]_vars

-----------------------------------------------------------------------------
\* The mains of the scripts: input directory check, load, output directory,
\* generation.

Directory(exists, names) == [exists |-> exists, names |-> names]

Commands ==
    {"analyze_results", "analyze_flash_crowd", "scalability_analysis",
     "analyze_peer_behavior"}

\* the files an input directory may hold
InputNames ==
    {"run_1.json", "scalability_5.json", "flash-crowd-20-peers.json",
     "flash-crowd-100-peers.json", "broken.json", "experiments_summary.json"}

\* the files analyze_peer_behavior looks for
PeerCountFiles == {"flash-crowd-20-peers.json", "flash-crowd-100-peers.json"}

\* main goes on without testing the input
InputUnchecked(cmd, dir) == TRUE

\* the test at the head of main: os.path.exists(results_dir), or for
\* analyze_peer_behavior one of the flash-crowd files existing
InputFound(cmd, dir) ==
    IF cmd = "analyze_peer_behavior"
    THEN dir.exists /\ dir.names \cap PeerCountFiles # {}
    ELSE dir.exists

\* the files the command's loader turns into results
LoadedNames(cmd, dir) ==
    CASE cmd = "analyze_results" ->
            dir.names \ {"experiments_summary.json", "broken.json"}
      [] cmd = "analyze_flash_crowd" -> dir.names \ {"broken.json"}
      [] cmd = "scalability_analysis" -> dir.names \cap {"scalability_5.json"}
      [] cmd = "analyze_peer_behavior" -> dir.names \cap PeerCountFiles

\* the files the command saves, in order
Outputs(cmd) ==
    CASE cmd = "analyze_results" ->
            <<"jains_fairness_table.csv", "baseline_vs_high_churn.csv",
              "summary_table.csv", "scalability_latency_over_time.png">>
      [] cmd = "analyze_flash_crowd" ->
            <<"flash_crowd_summary_table.csv", "flash_crowd_latency_comparison.png",
              "flash_crowd_cache_hit_ratio.png", "flash_crowd_origin_load_reduction.csv",
              "flash_crowd_fairness_index.png">>
      [] cmd = "scalability_analysis" ->
            <<"scalability_cache_hit_ratio.png", "scalability_jains_fairness.png",
              "scalability_combined_metrics.png", "scalability_metrics_table.csv">>
      [] cmd = "analyze_peer_behavior" ->
            <<"peer_behavior_comparison_all.csv", "latency_scaling_all_peers.png",
              "cache_hit_ratio_scaling_all_peers.png",
              "p2p_efficiency_scaling_all_peers.png">>

InitCommand ==
    /\ command \in Commands
    /\ results_dir \in {Directory(FALSE, {})}
                       \cup {Directory(TRUE, names) : names \in SUBSET InputNames}
    /\ output_dir \in {Directory(FALSE, {}), Directory(TRUE, {"earlier_run.csv"})}
    /\ step = "start"
    /\ IdleNorm
    /\ IdleBatch
    /\ IdleTopo
    /\ IdleInsight

\* the head of main: report a missing input and return
CheckResultsDir ==
    /\ step = "start"
    /\ step' = IF InputFound(command, results_dir) THEN "checked" ELSE "no_input"
    /\ UNCHANGED <<command, results_dir, output_dir, normVars, batchVars, topoVars,
                   insightVars>>

\* the load and main's test that something was loaded
LoadResultFiles ==
    /\ step = "checked"
    /\ step' = IF LoadedNames(command, results_dir) = {} THEN "empty" ELSE "loaded"
    /\ UNCHANGED <<command, results_dir, output_dir, normVars, batchVars, topoVars,
                   insightVars>>

\* os.makedirs(output_dir, exist_ok=True)
MakeOutputDir ==
    /\ step = "loaded"
    /\ output_dir' = Directory(TRUE, output_dir.names)
    /\ step' = "prepared"
    /\ UNCHANGED <<command, results_dir, normVars, batchVars, topoVars, insightVars>>

\* the analyses, each saving its file; an exception in one ends the run
GenerateOutputs ==
    /\ step = "prepared"
    /\ \E saved \in 0..Len(Outputs(command)) :
          /\ output_dir' =
                 Directory(TRUE, output_dir.names
                                     \cup {Outputs(command)[i] : i \in 1..saved})
          /\ step' = IF saved = Len(Outputs(command)) THEN "complete" ELSE "aborted"
    /\ UNCHANGED <<command, results_dir, normVars, batchVars, topoVars, insightVars>>

NextCommand ==
    \/ CheckResultsDir
    \/ LoadResultFiles
    \/ MakeOutputDir
    \/ GenerateOutputs

SpecCommand == InitCommand /\ [][NextCommand]_vars

-----------------------------------------------------------------------------
\* Properties of normalisation and derivation (checked under Spec)

\* the source block an extractor reads its counters from
SrcRes(r) ==
    IF IsDashboard(r) THEN r["results"]["microcloud"] ELSE Get(r, "results", EmptyDict)

Has(d, k) == k \in DOMAIN d

\* the record's networkRequests: supplied, or peerRequests + originRequests
SrcNetworkRequests(src) ==
    IF Has(src, "networkRequests") THEN src["networkRequests"]
    ELSE Add(Get(src, "peerRequests", Num(0)), Get(src, "originRequests", Num(0)))

\* the extractors that return a record for the current input
Normalised ==
    \/ op = "extract_metrics"
    \/ op = "extract_scalability_metrics" /\ IsDashboard(result)

\* C1: when networkRequests is 0 (supplied or derived) and the source gives no
\* networkCacheHitRatio, the normalised networkCacheHitRatio is the undefined
\* sentinel (None), never the number 0.
C1_RatioSentinel ==
    (/\ Normalised
     /\ ~Has(SrcRes(result), "networkCacheHitRatio")
     /\ SrcNetworkRequests(SrcRes(result)) = Num(0))
    => IsNone(out.networkCacheHitRatio)

\* C2: after normalisation networkRequests = peerRequests + originRequests,
\* also when the source supplies only two of the three counters, and also in
\* the request-pattern analysis.
C2_DerivedConsistency ==
    /\ op = "extract_metrics"
       => out.networkRequests = Add(out.peerRequests, out.originRequests)
    /\ (op = "analyze_request_patterns" /\ out.error = "")
       => out.microcloud.network_requests =
              Add(out.microcloud.peer_requests, out.microcloud.origin_requests)

\* C3: a legacy-shape record and a dashboard-shape record that carry the same
\* values are normalised by extract_metrics to records equal field for field.
C3_SchemaEquivalence ==
    op = "extract_metrics" => out = extract_metrics(twin)

C3_Witness ==
    /\ op = "extract_metrics"
    /\ IsDashboard(result) /\ ~IsDashboard(twin)
    /\ Has(result, "experimentMetadata")
    /\ out.scenario = "high_churn"
    /\ out.numPeers = Num(100) /\ out.baselineMode
    /\ ~Has(SrcRes(result), "networkCacheHitRatio")
    /\ out.networkCacheHitRatio = Num(50)

\* the value the derivation rule gives networkCacheHitRatio
RatioRule(src, ratio) ==
    /\ Has(src, "networkCacheHitRatio") => ratio = src["networkCacheHitRatio"]
    /\ (~Has(src, "networkCacheHitRatio") /\ Gt(SrcNetworkRequests(src), Num(0)))
       => ratio = Div(Mul(Num(100), Get(src, "peerRequests", Num(0))),
                      SrcNetworkRequests(src))

\* C5: in every extractor, an absent networkCacheHitRatio with
\* networkRequests > 0 is derived as 100 * peerRequests / networkRequests, and
\* a supplied value is kept unchanged.
C5_RatioDerived ==
    /\ Normalised => RatioRule(SrcRes(result), out.networkCacheHitRatio)
    /\ op = "extract_flash_crowd_metrics"
       => RatioRule(Get(Get(result, "results", EmptyDict), "microcloud", EmptyDict),
                    out.microcloud.networkCacheHitRatio)

\* the value the fallback rule gives the network latency
LatencyRule(src, latency) ==
    IF Has(src, "networkAvgLatency")
    THEN latency = src["networkAvgLatency"]
    ELSE latency = Get(src, "avgLatency", Num(0))

\* C6: the normalised network latency is the source's networkAvgLatency
\* whenever one is supplied (a supplied 0 included) and the source's
\* avgLatency only when networkAvgLatency is absent.
C6_LatencyFallback ==
    /\ op = "extract_metrics"
       => LatencyRule(SrcRes(result), out.networkAvgLatency)
    /\ (op = "extract_scalability_metrics" /\ IsDashboard(result))
       => LatencyRule(SrcRes(result), out.avgLatency)

\* 100 * (baseline - p2p) / baseline when baseline > 0, else 0
ExactPct(b, p) ==
    IF Gt(b, Num(0)) THEN Div(Mul(Num(100), Sub(b, p)), b) ELSE Num(0)

\* the origin-request counters of the record under analysis
SrcOrigin(r, mode) ==
    Get(Get(Get(r, "results", EmptyDict), mode, EmptyDict), "originRequests", Num(0))

IsTable ==
    op \in {"create_origin_load_reduction_table", "create_flash_crowd_summary_table"}

\* every input record has its row, and every row's reduction is the
\* difference of its two origin-request columns
TableReduction ==
    /\ Len(out) = 2
    /\ \E i \in 1..Len(out) :
          /\ out[i].baselineOriginRequests = SrcOrigin(result, "baseline")
          /\ out[i].p2pOriginRequests = SrcOrigin(result, "microcloud")
    /\ \A i \in 1..Len(out) :
          out[i].loadReduction =
              Sub(out[i].baselineOriginRequests, out[i].p2pOriginRequests)

PatternReduction ==
    (op = "analyze_request_patterns" /\ out.error = "")
    => /\ out.origin_load_reduction =
              Sub(SrcOrigin(result, "baseline"), SrcOrigin(result, "microcloud"))
       /\ out.origin_load_reduction_pct =
              ExactPct(SrcOrigin(result, "baseline"), SrcOrigin(result, "microcloud"))

\* C7 as stated: originLoadReduction = baseline - p2p origin requests and
\* originLoadReductionPct = 100 * reduction / baseline (0 when baseline is 0),
\* with the same values in the request-pattern analysis and both flash-crowd
\* tables.
C7_Original ==
    /\ PatternReduction
    /\ IsTable
       => /\ TableReduction
          /\ \A i \in 1..Len(out) :
                out[i].loadReductionPct =
                    ExactPct(out[i].baselineOriginRequests, out[i].p2pOriginRequests)

\* C7 amended: the request-pattern analysis produces exactly these values;
\* both flash-crowd tables produce the reduction exactly and the percentage
\* rounded to two decimals.
C7_OriginLoadReduction ==
    /\ PatternReduction
    /\ IsTable
       => /\ TableReduction
          /\ \A i \in 1..Len(out) :
                out[i].loadReductionPct =
                    Round2(ExactPct(out[i].baselineOriginRequests,
                                    out[i].p2pOriginRequests))

C7_Witness ==
    /\ op = "create_origin_load_reduction_table"
    /\ \E i \in 1..Len(out) :
          /\ out[i].baselineOriginRequests = Num(3)
          /\ out[i].p2pOriginRequests = Num(1)
          /\ out[i].loadReduction = Num(2)
          /\ out[i].loadReductionPct = Norm(6667, 100)

-----------------------------------------------------------------------------
\* Properties of batch runs (checked under SpecBatch)

\* a file that does not hold a record: it does not parse, or it parses to a
\* list, a scalar, or an object whose 'results' is not an object
Malformed(f) ==
    \/ f.kind \in {"unparseable", "list", "scalar"}
    \/ f.kind = "dict" /\ f.resultsKind \in {"list", "scalar"}

\* the files a run is meant to turn into records
Expected(f) == ~Malformed(f) /\ f.name # "experiments_summary.json"

Loaded == tool \in {"analyze_results", "analyze_multi_run"} /\ pending = {}

\* C4: in a batch, every file that fails to parse or is not record-shaped is
\* skipped with a warning, every other file still yields its record, and the
\* load-and-normalise run never aborts because of one bad file.
C4_BadFilesSkipped ==
    Loaded =>
        /\ phase # "aborted"
        /\ warnings = Cardinality({f \in files : Malformed(f)})
        /\ Len(results) = Cardinality({f \in files : Expected(f)})

\* the sample variance of the hit ratios (or latencies) of group k, and 0 for
\* a group of one
SampleVariance(xs) ==
    IF Len(xs) > 1
    THEN LET mean == Div(SumSeq(xs), Num(Len(xs)))
             sq == [i \in 1..Len(xs) |-> Mul(Sub(xs[i], mean), Sub(xs[i], mean))]
         IN  Div(SumSeq(sq), Num(Len(xs) - 1))
    ELSE Num(0)

GroupOf(k, field) ==
    LET members == SelectSeq(results, LAMBDA e : Get(e.rec, "peersSimulated", Num(0)) = k)
    IN  [i \in 1..Len(members) |-> Get(members[i].rec, field, Num(0))]

\* C8: every reported per-group standard deviation is the sample standard
\* deviation (squared deviations over count - 1) when count > 1 and 0 when
\* count <= 1, in analyze_by_peer_count and in the plot-metrics error bars.
C8_SampleStddev ==
    /\ (tool = "analyze_multi_run" /\ phase = "done")
       => \A k \in DOMAIN produced :
             /\ produced[k].std_cache_hit_ratio =
                    PySqrt(SampleVariance(GroupOf(k, "cacheHitRatio")))
             /\ produced[k].std_latency =
                    PySqrt(SampleVariance(GroupOf(k, "avgLatency")))
    /\ (tool = "plot_metrics" /\ phase = "done")
       => \A k \in DOMAIN produced :
             produced[k].y_std = PySqrt(SampleVariance(GroupOf(k, "cacheHitRatio")))

\* the files of the directory in one fixed order
RECURSIVE SeqOf(_)
SeqOf(S) ==
    IF S = {} THEN <<>>
    ELSE LET f == CHOOSE f \in S : TRUE IN <<f>> \o SeqOf(S \ {f})

\* the list load_results_from_directory builds when the glob yields the
\* files in the order fs
RECURSIVE DirectoryLoadedInOrder(_)
DirectoryLoadedInOrder(fs) ==
    IF fs = <<>> THEN <<>>
    ELSE LoadFromDirectoryAppends(Head(fs)) \o DirectoryLoadedInOrder(Tail(fs))

\* the list load_results builds when the glob yields the files in the order fs
RECURSIVE ResultsLoadedInOrder(_)
ResultsLoadedInOrder(fs) ==
    IF fs = <<>> THEN <<>>
    ELSE LoadResultsAppends(Head(fs)) \o ResultsLoadedInOrder(Tail(fs))

\* C9: aggregation of the same records in any order returns the same group
\* keys and, for every key, the same count, mean and standard deviation.
C9_OrderIndependent ==
    /\ (tool = "analyze_multi_run" /\ phase = "done")
       => produced =
              analyze_by_peer_count(DirectoryLoadedInOrder(SeqOf(files)))
    /\ (tool = "analyze_results" /\ phase = "done")
       => produced =
              create_summary_table(ResultsLoadedInOrder(SeqOf(files)))

C9_Witness ==
    /\ tool = "analyze_multi_run" /\ phase = "done"
    /\ results # DirectoryLoadedInOrder(SeqOf(files))
    /\ \E k \in DOMAIN produced :
          /\ produced[k].count = 3
          /\ produced[k].std_cache_hit_ratio # PySqrt(Num(0))

-----------------------------------------------------------------------------
\* Properties of connection reconstruction (checked under SpecTopo)

Analysed == density # NoOutput /\ density.error = ""

\* the events that establish a connection: successful, with a target and a
\* source that is neither empty nor the origin
Establishes(e) ==
    /\ Has(e, "success") /\ e["success"]
    /\ Get(e, "source", "") \notin {"", "origin", "Origin-CDN"}
    /\ TargetOf(e) # ""

\* the unordered peer pairs of the transfer log
PeerPairs ==
    {{events[i]["source"], TargetOf(events[i])} :
        i \in {j \in 1..Len(events) : Establishes(events[j])}}

\* C10: the connection set holds unordered peer pairs: A -> B and B -> A are
\* one connection, a repeated transfer adds none, and failed transfers and
\* transfers from the origin or from an empty source add nothing.
C10_UnorderedConnections ==
    Analysed => density.num_connections = Cardinality(PeerPairs)

\* 0 <= x <= 1
InUnitInterval(x) == ~Gt(Num(0), x) /\ ~Gt(x, Num(1))

\* C11: the computed connection density lies between 0 and 1 inclusive
\* whenever the peer count is greater than 1, and is exactly 0 when the peer
\* count is 0 or 1.
C11_DensityBounded ==
    Analysed =>
        IF density.num_peers > 1
        THEN InUnitInterval(density.connection_density)
        ELSE density.connection_density = Num(0)

TimelineDone == timeline # NoOutput /\ timeline.error = ""

\* simulation start: the earliest join timestamp
StartTime == MinOf([i \in 1..Len(joins) |-> Get(joins[i], "timestamp", Num(0))])

\* C12: once a target has a successful transfer, appending further successful
\* transfers to it (duplicates or later ones) leaves its recorded
\* content-arrival time unchanged: the time recorded for the whole list is the
\* time recorded for every prefix that already reaches the target.
C12_FirstArrival ==
    TimelineDone =>
        \A k \in 1..Len(events) :
            LET before == PeerContentTimes(SubSeq(events, 1, k), StartTime)
            IN  \A target \in DOMAIN before :
                    timeline.peer_content_times[target] = before[target]

C12_Witness ==
    /\ TimelineDone
    /\ Len(events) = 3
    /\ events[1] = [success |-> TRUE, source |-> "A", target |-> "B",
                    timestamp |-> Num(6000)]
    /\ events[2] = [success |-> TRUE, source |-> "A", target |-> "B",
                    timestamp |-> Num(10000)]
    /\ events[3] = [success |-> TRUE, source |-> "C", target |-> "B",
                    timestamp |-> Num(2000)]
    /\ timeline.peer_content_times["B"] = Num(5)

-----------------------------------------------------------------------------
\* Properties of the sub-analyses' failure results (SpecTopo, SpecJoin)

\* the anchorNodes of the record under analysis are missing, empty or not a
\* recognised map
AnchorMapUnusable ==
    LET microcloud == result["results"]["microcloud"]
    IN  \/ "anchorNodes" \notin DOMAIN microcloud
        \/ microcloud["anchorNodes"].kind \in {"string", "number"}
        \/ ~AnchorTruthy(microcloud["anchorNodes"])

JoinPatternDone == op = "analyze_peer_join_pattern" /\ out.error = ""

\* C13: a sub-analysis whose required input is missing returns an explicit
\* insufficient-data result and never a numeric 0: density with join events
\* but no transfer events does not report 0, the timeline without transfer or
\* join events reports an error, and anchor load with a missing or
\* unrecognised anchor-node map does not report 0.
C13_InsufficientData ==
    /\ (density # NoOutput /\ (events = <<>> \/ joins = <<>>)) => density.error # ""
    /\ (timeline # NoOutput /\ (events = <<>> \/ joins = <<>>)) => timeline.error # ""
    /\ (JoinPatternDone /\ AnchorMapUnusable)
       => ("max_anchor_load" \in DOMAIN out => out["max_anchor_load"] # Num(0))

\* C19: for a record that parses as an object, the absence of a field the
\* analysis reads (results.baseline, configuration, an event's timestamp) is
\* resolved by a default and never raises out of an analysis function.
C19_AbsentFieldsDefaulted ==
    op \in {"analyze_peer_join_pattern", "analyze_latency_distribution"}
    => out.error # "KeyError"

\* the anchor statistics of a join-pattern result
AnchorStats(analysis) ==
    [k \in DOMAIN analysis \cap {"anchor_node_loads", "max_anchor_load", "avg_anchor_load"}
        |-> analysis[k]]

\* C20: an anchor-node map given as a mapping (node -> connection count, or
\* node -> record with a connection count) and the same anchors given as a
\* list of per-node records produce the same node-to-load mapping and so the
\* same max and average anchor load.
C20_AnchorRepresentations ==
    JoinPatternDone
    => AnchorStats(out) = AnchorStats(analyze_peer_join_pattern(twin, 20))


-----------------------------------------------------------------------------
\* Properties of the comparison report

\* the report ran to its end with the reference configuration present
Reported == report # NoOutput /\ ~report.raised /\ Reference \in DOMAIN analyses

OtherPeerCounts == DOMAIN analyses \ {Reference}

Flagged(kind, pc) ==
    \E i \in 1..Len(insights) : insights[i].kind = kind /\ insights[i].pc = pc

FlaggedWith(kind, pc, shown) ==
    \E i \in 1..Len(insights) : insights[i] = Insight(kind, pc, shown)

HasMetric(section, key, pc) ==
    /\ key \in DOMAIN analyses[Reference][section]
    /\ key \in DOMAIN analyses[pc][section]

\* C14: for every non-reference configuration a cache-effectiveness flag is
\* recorded exactly when the reference hit ratio minus the other's exceeds 10,
\* a p2p-efficiency flag exactly when that difference exceeds 15, a
\* transfer-success flag exactly when both report a success rate and the
\* difference exceeds 5; each flag's message shows its own difference.
C14_DifferenceFlags ==
    Reported =>
        \A pc \in OtherPeerCounts :
            LET ref == analyses[Reference]
                other == analyses[pc]
                hit == Sub(HitRatioOf(ref), HitRatioOf(other))
                eff == Sub(EfficiencyOf(ref), EfficiencyOf(other))
                suc == Sub(SuccessRateOf(ref), SuccessRateOf(other))
            IN  /\ Flagged("cache_hit_ratio", pc) <=> Gt(hit, Num(10))
                /\ Flagged("cache_hit_ratio", pc)
                       => FlaggedWith("cache_hit_ratio", pc, <<Round(hit, 1)>>)
                /\ Flagged("p2p_efficiency", pc) <=> Gt(eff, Num(15))
                /\ Flagged("transfer_success", pc)
                       <=> HasMetric("transfers", "success_rate", pc) /\ Gt(suc, Num(5))

\* reference at 85, 100 peers at 60 and 500 peers at 30: both flagged, with 25
\* and with 55
C14_Witness ==
    /\ Reported
    /\ DOMAIN analyses = {20, 100, 500}
    /\ HitRatioOf(analyses[20]) = Num(85)
    /\ HitRatioOf(analyses[100]) = Num(60)
    /\ HitRatioOf(analyses[500]) = Num(30)
    /\ FlaggedWith("cache_hit_ratio", 100, <<Num(25)>>)
    /\ FlaggedWith("cache_hit_ratio", 500, <<Num(55)>>)

\* C15: for every non-reference configuration a latency flag is recorded
\* exactly when the reference latency is positive and (other - reference) /
\* reference exceeds 1/2; with a reference latency of 0 nothing is flagged.
C15_LatencyFlag ==
    Reported =>
        \A pc \in OtherPeerCounts :
            LET latency_20 == LatencyOf(analyses[Reference])
                latency == LatencyOf(analyses[pc])
            IN  Flagged("latency", pc)
                    <=> /\ Gt(latency_20, Num(0))
                        /\ Gt(Div(Sub(latency, latency_20), latency_20), Norm(1, 2))

\* reference at 10: 100 peers at 16 is flagged with 60 percent, 500 peers at 15
\* is not
C15_Witness ==
    /\ Reported
    /\ DOMAIN analyses = {20, 100, 500}
    /\ LatencyOf(analyses[20]) = Num(10)
    /\ LatencyOf(analyses[100]) = Num(16)
    /\ LatencyOf(analyses[500]) = Num(15)
    /\ FlaggedWith("latency", 100, <<Num(60)>>)
    /\ ~Flagged("latency", 500)

\* C16: for every non-reference configuration an anchor-load flag is recorded
\* exactly when it and the reference report a max anchor load and its load
\* exceeds 3/2 of the reference's, a density flag exactly when neither density
\* analysis reported an error and its density is below 4/5 of the reference's,
\* a propagation flag exactly when neither timeline reported an error and its
\* rate is below 7/10 of the reference's.
C16_RatioFlags ==
    Reported =>
        \A pc \in OtherPeerCounts :
            LET ref == analyses[Reference]
                other == analyses[pc]
            IN  /\ Flagged("anchor_load", pc)
                       <=> /\ HasMetric("join_pattern", "max_anchor_load", pc)
                           /\ Gt(MaxAnchorLoadOf(other),
                                 Mul(Norm(3, 2), MaxAnchorLoadOf(ref)))
                /\ Flagged("connection_density", pc)
                       <=> /\ NoError(ref["network_density"])
                           /\ NoError(other["network_density"])
                           /\ Gt(Mul(Norm(4, 5), DensityOf(ref)), DensityOf(other))
                /\ Flagged("propagation_rate", pc)
                       <=> /\ NoError(ref["content_timeline"])
                           /\ NoError(other["content_timeline"])
                           /\ Gt(Mul(Norm(7, 10), PropagationRateOf(ref)),
                                 PropagationRateOf(other))

\* reference density 1/2: 100 peers at 3/10 is flagged, 500 peers whose density
\* analysis reported an error is not
C16_Witness ==
    /\ Reported
    /\ DOMAIN analyses = {20, 100, 500}
    /\ analyses[20]["network_density"] = [error |-> "", connection_density |-> Norm(1, 2)]
    /\ analyses[100]["network_density"] = [error |-> "", connection_density |-> Norm(3, 10)]
    /\ analyses[500]["network_density"] = NoDensity
    /\ FlaggedWith("connection_density", 100, <<Num(30), Num(50)>>)
    /\ ~Flagged("connection_density", 500)

\* C17: when the 20-peer configuration is absent and others are present, the
\* comparison report completes without raising, with its table produced.
C17_ReferenceAbsent ==
    (report # NoOutput /\ Reference \notin DOMAIN analyses)
        => ~report.raised /\ ~report.insights_generated

\* C18: a run of analyze_results in which no record passes a table's filter
\* (no record outside baseline mode for the fairness table, no high-churn
\* record for the churn comparison) does not write that table.
C18_NoEmptyTables ==
    (tool = "analyze_results" /\ phase = "done") =>
        LET metrics == MetricsOf(results)
        IN  /\ (\A i \in 1..Len(metrics) : ~IsP2P(metrics[i]))
                   => "jains_fairness_table.csv" \notin DOMAIN written
            /\ (\A i \in 1..Len(metrics) : ~IsHighChurn(metrics[i]))
                   => "baseline_vs_high_churn.csv" \notin DOMAIN written

\* C21: in the propagation timeline the duration is the last content time
\* minus the first, the rate times the duration is the number of peers with
\* content when the duration is positive, and the rate is 0 when the
\* duration is 0.
C21_PropagationRate ==
    TimelineDone =>
        LET duration == timeline.propagation_duration
            peers == Cardinality(DOMAIN timeline.peer_content_times)
        IN  /\ duration = Sub(timeline.last_content_time, timeline.first_content_time)
            /\ ~Gt(Num(0), duration)
            /\ timeline.peers_with_content_over_time = peers
            /\ Gt(duration, Num(0)) => Mul(timeline.propagation_rate, duration) = Num(peers)
            /\ duration = Num(0) => timeline.propagation_rate = Num(0)

\* two peers receive content 4 seconds apart, the first 5 seconds after the
\* start: rate 1/2
C21_Witness ==
    /\ TimelineDone
    /\ timeline.first_content_time = Num(5)
    /\ timeline.last_content_time = Num(9)
    /\ timeline.propagation_duration = Num(4)
    /\ timeline.propagation_rate = Norm(1, 2)

\* the flags of an insights list, without their order
FlagSet(list) == {list[i] : i \in 1..Len(list)}

\* C22: for the same family of analyses the insight generator records the
\* same set of flags whatever the order in which the configurations were
\* inserted into the mapping.
C22_InsertionOrderIndependent ==
    Reported =>
        \A order \in InsertionOrders(DOMAIN analyses) :
            FlagSet(analyze_why_20_is_special(order, analyses)) = FlagSet(insights)

\* three configurations inserted largest first, the reference last, with a
\* flag for each of the other two
C22_Witness ==
    /\ Reported
    /\ inserted = <<500, 100, 20>>
    /\ \E kind \in {"cache_hit_ratio", "latency", "p2p_efficiency"} : Flagged(kind, 100)
    /\ \E kind \in {"cache_hit_ratio", "latency", "p2p_efficiency"} : Flagged(kind, 500)

\* C26: every flag recorded during one evaluation is in the insight sequence
\* the generator emits; none is appended after the list was printed.
C26_FlagsEmitted ==
    Reported => FlagSet(insights) \subseteq FlagSet(report.printed)

\* the seven metrics of the threshold table
TableMetrics ==
    {"cache_hit_ratio", "anchor_load", "latency", "p2p_efficiency", "transfer_success",
     "connection_density", "propagation_rate"}

\* C29: the insight generator records a flag only for the seven metric
\* conditions of the threshold table.
C29_OnlyTableMetrics ==
    Reported => \A i \in 1..Len(insights) : insights[i].kind \in TableMetrics

\* C23: when the input directory does not exist, every step of a command
\* leaves the output directory as it was and ends in the report that no
\* input was found.
C23_MissingInputFrame ==
    [][~results_dir.exists => (output_dir' = output_dir /\ step' = "no_input")]_vars

\* a command has reported the missing input directory, the output directory
\* still absent
C23_Witness ==
    /\ command \in Commands
    /\ ~results_dir.exists
    /\ step = "no_input"
    /\ output_dir = Directory(FALSE, {})

\* the indices of the records outside baseline mode that belong to a cell
CellRecords(metrics, cell) ==
    {i \in 1..Len(metrics) :
        /\ metrics[i].baselineMode = FALSE
        /\ <<metrics[i].scenario, metrics[i].numPeers>> = cell}

RECURSIVE FairnessTotal(_, _)
FairnessTotal(metrics, S) ==
    IF S = {} THEN Num(0)
    ELSE LET i == CHOOSE i \in S : TRUE
         IN  Add(metrics[i].jainFairnessIndex, FairnessTotal(metrics, S \ {i}))

FairnessTableDone ==
    /\ tool = "analyze_results" /\ phase = "done"
    /\ "jains_fairness_bar_chart.png" \in DOMAIN written

\* C24: every cell of the fairness pivot is the mean of jainFairnessIndex over
\* the records of that scenario and peer count that are not in baseline mode,
\* and the pivot has a cell only where there is such a record.
C24_BaselineExcluded ==
    FairnessTableDone =>
        LET metrics == MetricsOf(results)
            pivot == written["jains_fairness_bar_chart.png"]
        IN  /\ \A cell \in DOMAIN pivot :
                  /\ CellRecords(metrics, cell) # {}
                  /\ Mul(pivot[cell], Num(Cardinality(CellRecords(metrics, cell))))
                         = FairnessTotal(metrics, CellRecords(metrics, cell))
            /\ \A i \in 1..Len(metrics) :
                  metrics[i].baselineMode = FALSE
                      => <<metrics[i].scenario, metrics[i].numPeers>> \in DOMAIN pivot

\* a baseline record (index 1/4) and a high-churn record (index 3/4) of the
\* same scenario and peer count: the cell holds 3/4
C24_Witness ==
    /\ FairnessTableDone
    /\ \E i \in 1..Len(results) :
          LET m == extract_metrics(results[i].rec)
          IN  m.baselineMode = TRUE /\ m.scenario = "high_churn" /\ m.numPeers = Num(20)
    /\ <<"high_churn", Num(20)>> \in DOMAIN written["jains_fairness_bar_chart.png"]
    /\ written["jains_fairness_bar_chart.png"][<<"high_churn", Num(20)>>] = Norm(3, 4)

\* the derived ratios of the join-pattern and request-timing analyses
RatioFields == {"expected_join_duration", "p2p_ratio", "transfer_to_request_ratio"}

-----------------------------------------------------------------------------
\* Earliest arrival per target (checked under SpecTopo)

\* C27: for every transfer target the recorded content-arrival time is the
\* smallest normalised timestamp among that target's successful transfers,
\* whatever the order of the events in the list.
C27_EarliestArrival ==
    TimelineDone =>
        \A target \in DOMAIN timeline.peer_content_times :
            \A i \in 1..Len(events) :
                (Get(events[i], "success", FALSE) /\ TargetOf(events[i]) = target)
                    => ~Gt(timeline.peer_content_times[target],
                           Seconds(Get(events[i], "timestamp", Num(0)), StartTime))

-----------------------------------------------------------------------------
\* Properties of the transfer-event analysis (checked under SpecJoin)

TransfersDone == op = "analyze_file_transfer_events" /\ out.error = ""

\* C28: for every non-empty transfer-event list the analysis reports
\* successful_transfers + failed_transfers = total_transfers, also when events
\* carry no 'success' field, and success_rate = 100 * successful / total.
C28_TransfersPartitioned ==
    TransfersDone =>
        /\ out.successful_transfers + out.failed_transfers = out.total_transfers
        /\ out.success_rate =
               Div(Num(100 * out.successful_transfers), Num(out.total_transfers))

-----------------------------------------------------------------------------
\* Properties of the per-peer connection counts (checked under SpecTopo)

\* C30: in every density result the per-peer connection counts sum to exactly
\* twice the number of reconstructed connections, and
\* max_connections_per_peer is at least avg_connections_per_peer.
C30_DegreeSum ==
    Analysed =>
        /\ SumSeq(CountValues(density.connection_distribution))
               = Num(2 * density.num_connections)
        /\ ~Gt(density.avg_connections_per_peer, density.max_connections_per_peer)

\* two connections out of one peer: degrees 2, 1, 1
C30_Witness ==
    /\ Analysed
    /\ density.num_connections = 2
    /\ Cardinality(DOMAIN density.connection_distribution) = 3
    /\ density.max_connections_per_peer = Num(2)
    /\ density.avg_connections_per_peer = Norm(4, 3)

====
